---- MODULE Spec2Model ----
(***************************************************************************)
(* JogWheel firmware (src/src/main.cpp): the configuration store kept in   *)
(* EEPROM.  The persisted bytes are modelled byte by byte, the in-memory   *)
(* header as the struct headerBlock, and every helper (readConfig,         *)
(* writeConfig, readHeader, freeSpace, nConfigs, removeConfig, addConfig,  *)
(* setConfig, onUse) as an operator that computes what the C++ computes.   *)
(***************************************************************************)
EXTENDS Integers, Sequences, FiniteSets, TLC

VARIABLES header,   \* the global headerBlock header (copy of the EEPROM header)
          eeprom,   \* the EEPROM bytes written so far: eeprom[a + 1] is byte a
          ub,       \* TRUE once a readConfig has overrun configBlock.entry
          last,     \* the operation performed last, its arguments and result
          nops,     \* the operations that changed the store so far
          line,     \* the words of the command line the console has received
          cbRead,   \* the configBlock cb the last readConfig(cbn, cb) filled
          state,            \* ISR: state[c] of the machine of coil c
          risingTimestamp,  \* ISR: micros() / 4 when coil c last entered rose with movement none
          movement,         \* the movement detected: "cw", "none" or "cc"
          now,              \* micros() / 4 at the next timer interrupt
          pc,               \* where loop() is in its handling of movement
          dir,              \* loop(): the direction read from movement
          nticks,           \* the timer interrupts so far
          age,              \* history: the time since risingTimestamp[c] was set, up to AgeCap
          paired,           \* history: the rise recorded in risingTimestamp[c] has set movement
          repaired,         \* history: a rise that had set movement has set it once more
          latched,          \* history: the values the ISR has set movement to, in order
          dispatched,       \* history: the directions loop() has acted on, in order
          interleaved,      \* history: an interrupt has completed a rise while loop() was
                            \* between its test of movement and its reset
          sampled,          \* history: coilVal[c], the samples of the last timer interrupt
          button,           \* loop(): button[i], the debounced state of button i (0 or 1)
          buttonMillis,     \* loop(): millis() when button i was first seen changed, or 0
          pendingCombo,     \* loop(): the chord accepted last, 0 before the first pass
          pendingMillis,    \* loop(): millis() when the chord was first seen changed, or 0
          millis,           \* millis() at the next pass of loop(), as <<upper, lower 16 bits>>
          curButton,        \* the chord of the levels read by digitalRead() in the last pass
          npasses,          \* the passes of loop() so far
          diffSince,        \* history: for how long the samples of button i have differed from
                            \* button[i] without a break, NoRun when the last did not
          chordWas,         \* history: the debounced chord of the last pass
          chordFor,         \* history: for how long the debounced chord has been chordWas
          hid,              \* the keys and mouse buttons the host sees pressed
          sent,             \* the actions loop() made for the last movement, in order
          given,            \* the action whose text is handed to a parser
          code              \* the value the parser returned, NoCode before the call

storeVars == <<header, eeprom, ub, last, nops>>
consoleVars == <<line, cbRead>>
buttonVars == <<button, buttonMillis, pendingCombo, pendingMillis, millis, curButton, npasses,
                diffSince, chordWas, chordFor>>
hidVars == <<hid, sent>>
codecVars == <<given, code>>
decoderVars == <<state, risingTimestamp, movement, now, pc, dir, nticks, age, paired, repaired,
          latched, dispatched, interleaved, sampled>>
vars == <<header, eeprom, ub, last, nops, line, cbRead,
          state, risingTimestamp, movement, now, pc, dir, nticks, age, paired, repaired,
          latched, dispatched, interleaved, sampled,
          button, buttonMillis, pendingCombo, pendingMillis, millis, curButton, npasses,
          diffSince, chordWas, chordFor, hid, sent, given, code>>

----------------------------------------------------------------------------
(* Program constants *)

FINGERPRINT == 49821        \* 0xC29D
N_CONFIGS == 8              \* N_ELEMENTS(header.configPtr)
N_COMBOS == 7               \* N_ELEMENTS(header.curConfig)
HeaderSize == 26            \* sizeof(header) = 2 + 1 + 7 + 2 * 8 (AVR: no padding)
EepromSize == 1024          \* bytes of EEPROM
EntrySize == 4              \* sizeof(cb.entry[0]) = 2 * sizeof(uint16_t)
CountSize == 1              \* sizeof(cb.nEntries)
MaxBlockEntries == 32       \* sizeof(cb.entry) / sizeof(cb.entry[0])
KEY_UP_ARROW == 218         \* 0xDA
KEY_DOWN_ARROW == 217       \* 0xD9
Erased == 2^8 - 1           \* an EEPROM byte never written reads 0xFF
SizeT == 2^16               \* size_t and uint16_t arithmetic is modulo 2^16
DefaultSelection == 1       \* header.selection of the synthesized header

(* Bounds of the model *)

MaxEntries == 2             \* the command new is given 0..MaxEntries pairs of specs
MaxOps == 3                 \* operations that change the store, after Init

----------------------------------------------------------------------------
(* EEPROM primitives (avr/eeprom.h) *)

Max(a, b) == IF a >= b THEN a ELSE b

\* The one element of a singleton set: { F(x) : x \in {e} } evaluates e once
\* where F uses it many times.
The(S) == CHOOSE x \in S : TRUE

\* The byte at address a.  Addresses wrap at the size of the device.
EepromRead(e, a) ==
    LET i == (a % EepromSize) + 1
    IN  IF i <= Len(e) THEN e[i] ELSE Erased

\* eeprom_write_block: bytes stored from addr upwards, every other byte kept.
EepromWriteBlock(e, addr, bytes) ==
    LET n  == Len(bytes)
        a0 == addr % EepromSize
        hi == IF a0 + n > EepromSize THEN EepromSize ELSE Max(Len(e), a0 + n)
    IN  [i \in 1..hi |->
            LET j == ((i - 1) - a0) % EepromSize
            IN  IF j < n THEN bytes[j + 1] ELSE EepromRead(e, i - 1)]

----------------------------------------------------------------------------
(* struct headerBlock and struct configBlock, and their bytes *)

Lo(w) == w % 256
Hi(w) == (w \div 256) % 256
Word(lo, hi) == lo + 256 * hi

\* The bytes of a headerBlock in memory order (little endian).
HeaderBytes(h) ==
    <<Lo(h.fingerprint), Hi(h.fingerprint), h.selection>>
    \o [i \in 1..N_COMBOS |-> h.curConfig[i - 1]]
    \o [i \in 1..(2 * N_CONFIGS) |->
            IF i % 2 = 1 THEN Lo(h.configPtr[(i - 1) \div 2])
                         ELSE Hi(h.configPtr[(i - 1) \div 2])]

\* The headerBlock whose bytes are the first sizeof(header) bytes of e.
HeaderFromEeprom(e) ==
    [fingerprint |-> Word(EepromRead(e, 0), EepromRead(e, 1)),
     selection   |-> EepromRead(e, 2),
     curConfig   |-> [c \in 0..(N_COMBOS - 1) |-> EepromRead(e, 3 + c)],
     configPtr   |-> [s \in 0..(N_CONFIGS - 1) |->
                        Word(EepromRead(e, 3 + N_COMBOS + 2 * s),
                             EepromRead(e, 4 + N_COMBOS + 2 * s))]]

\* sizeof(cb.nEntries) + sizeof(cb.entry[0]) * n
Footprint(n) == CountSize + EntrySize * n

\* The first Footprint(cb.nEntries) bytes of a configBlock: the count, then
\* entry[i][ENTRY_CW] and entry[i][ENTRY_CC], each a little-endian uint16_t.
ConfigBytes(cb) ==
    <<cb.nEntries>>
    \o [j \in 1..(EntrySize * cb.nEntries) |->
            LET w == cb.entry[((j - 1) \div EntrySize) + 1][(((j - 1) % EntrySize) \div 2) + 1]
            IN  IF j % 2 = 1 THEN Lo(w) ELSE Hi(w)]

----------------------------------------------------------------------------
(* EEPROM helper functions *)

\* writeHeader(): the header to EEPROM address 0.
writeHeader(h, e) == EepromWriteBlock(e, 0, HeaderBytes(h))

\* writeConfig(cbn, cb): the count and the cb.nEntries entries to the address
\* header.configPtr[cbn]; nothing for a cbn out of range.
writeConfig(h, e, cbn, cb) ==
    IF cbn < 0 \/ cbn >= N_CONFIGS
    THEN e
    ELSE EepromWriteBlock(e, h.configPtr[cbn], ConfigBytes(cb))

\* readConfig(cbn, cb): the count stored at header.configPtr[cbn] and that
\* many entries.  A stored count above 32 overruns cb.entry: undefined
\* behaviour, reported in ub (no entries are modelled for it).
readConfig(h, e, cbn) ==
    IF cbn < 0 \/ cbn >= N_CONFIGS
    THEN [ok |-> FALSE, ub |-> FALSE, cb |-> [nEntries |-> 0, entry |-> <<>>]]
    ELSE LET ptr == h.configPtr[cbn]
             n   == EepromRead(e, ptr)
             at(i, d) == ptr + CountSize + EntrySize * (i - 1) + 2 * (d - 1)
         IN  IF n > MaxBlockEntries
             THEN [ok |-> TRUE, ub |-> TRUE, cb |-> [nEntries |-> n, entry |-> <<>>]]
             ELSE [ok |-> TRUE, ub |-> FALSE,
                   cb |-> [nEntries |-> n,
                           entry |-> [i \in 1..n |->
                                        <<Word(EepromRead(e, at(i, 1)), EepromRead(e, at(i, 1) + 1)),
                                          Word(EepromRead(e, at(i, 2)), EepromRead(e, at(i, 2) + 1))>>]]]

\* The starter configuration: k0xDA 0xD9.
DefaultConfig ==
    [nEntries |-> 1, entry |-> <<<<KEY_UP_ARROW, KEY_DOWN_ARROW>>>>]

\* A synthesized header with selection 0.
DefaultHeaderSelectionZero ==
    [fingerprint |-> FINGERPRINT,
     selection   |-> 0,
     curConfig   |-> [c \in 0..(N_COMBOS - 1) |-> 0],
     configPtr   |-> [s \in 0..(N_CONFIGS - 1) |-> IF s = 0 THEN HeaderSize ELSE 0]]

\* The header readHeader() synthesizes when the fingerprint is not ours.
DefaultHeader ==
    [fingerprint |-> FINGERPRINT,
     selection   |-> DefaultSelection,
     curConfig   |-> [c \in 0..(N_COMBOS - 1) |-> 0],
     configPtr   |-> [s \in 0..(N_CONFIGS - 1) |-> IF s = 0 THEN HeaderSize ELSE 0]]

\* A readHeader that synthesizes the defaults in memory and writes nothing.
readHeaderNoPersist(e) ==
    LET h == HeaderFromEeprom(e)
    IN  IF h.fingerprint = FINGERPRINT
        THEN [ok |-> TRUE, header |-> h, eeprom |-> e]
        ELSE [ok |-> FALSE, header |-> DefaultHeader, eeprom |-> e]

\* A readHeader that returns true whatever it read.
readHeaderReportsTrue(e) ==
    LET h == HeaderFromEeprom(e)
    IN  IF h.fingerprint = FINGERPRINT
        THEN [ok |-> TRUE, header |-> h, eeprom |-> e]
        ELSE LET e1 == writeHeader(DefaultHeader, e)
             IN  [ok |-> TRUE, header |-> DefaultHeader,
                  eeprom |-> writeConfig(DefaultHeader, e1, 0, DefaultConfig)]

\* readHeader(): the header from EEPROM; with a foreign fingerprint the
\* default header and config 0 are synthesized and written.  ok is the value
\* returned.
readHeader(e) ==
    LET h == HeaderFromEeprom(e)
    IN  IF h.fingerprint = FINGERPRINT
        THEN [ok |-> TRUE, header |-> h, eeprom |-> e]
        ELSE LET e1 == writeHeader(DefaultHeader, e)
             IN  [ok |-> FALSE, header |-> DefaultHeader,
                  eeprom |-> writeConfig(DefaultHeader, e1, 0, DefaultConfig)]

\* The guard of setConfig(combo, cbn).
SetConfigRejects(h, combo, cbn) ==
    cbn >= N_CONFIGS \/ combo >= N_COMBOS \/ h.configPtr[cbn] = 0

\* setConfig(combo, cbn)
setConfig(h, e, combo, cbn) ==
    IF SetConfigRejects(h, combo, cbn)
    THEN [ok |-> FALSE, header |-> h, eeprom |-> e]
    ELSE LET h1 == [h EXCEPT !.curConfig[combo] = cbn]
         IN  [ok |-> TRUE, header |-> h1, eeprom |-> writeHeader(h1, e)]

\* The loop of freeSpace() from config cbn on: fs less the entries of every
\* config up to the first unused one.
RECURSIVE FreeSpaceLoop(_, _, _, _)
FreeSpaceLoop(h, e, cbn, fs) ==
    IF cbn < N_CONFIGS /\ h.configPtr[cbn] # 0
    THEN The({ IF r.ub
               THEN [fs |-> fs, ub |-> TRUE]
               ELSE The({ FreeSpaceLoop(h, e, cbn + 1, fs1) :
                          fs1 \in {(fs - r.cb.nEntries * EntrySize) % SizeT} })
               : r \in {readConfig(h, e, cbn)} })
    ELSE [fs |-> fs, ub |-> FALSE]

\* freeSpace()
freeSpace(h, e) == FreeSpaceLoop(h, e, 0, EepromSize - HeaderSize)

\* nConfigs()
RECURSIVE NConfigsLoop(_, _)
NConfigsLoop(h, answer) ==
    IF answer < N_CONFIGS
    THEN IF h.configPtr[answer] = 0 THEN answer ELSE NConfigsLoop(h, answer + 1)
    ELSE answer

nConfigs(h) == NConfigsLoop(h, 1)

\* A removeConfig that takes config 0 like any other.
RemoveRejectsNotZero(h, cbn) ==
    cbn >= N_CONFIGS \/ h.configPtr[cbn] = 0

\* The guard of removeConfig(cbn).
RemoveRejects(h, cbn) ==
    cbn < 1 \/ cbn >= N_CONFIGS \/ h.configPtr[cbn] = 0

\* A removeConfig that leaves the combos of the removed config as they are.
RemapComboNoReset(m, cbn) ==
    IF m > cbn THEN m - 1 ELSE m

\* A removeConfig that resets the combos of the removed config and does not
\* account for the compaction.
RemapComboNoShift(m, cbn) ==
    IF m = cbn THEN 0 ELSE m

\* What removeConfig(cbn) makes of one header.curConfig[combo] = m.
RemapCombo(m, cbn) ==
    LET m1 == IF m = cbn THEN 0 ELSE m
    IN  IF m1 > cbn THEN m1 - 1 ELSE m1

\* The compaction loop of removeConfig from config cbi on.
RECURSIVE RemoveLoop(_, _, _, _)
RemoveLoop(h, e, cbi, delta) ==
    IF cbi >= N_CONFIGS
    THEN [ub |-> FALSE, header |-> h, eeprom |-> e]
    ELSE IF h.configPtr[cbi] = 0
         THEN [ub |-> FALSE, header |-> [h EXCEPT !.configPtr[cbi - 1] = 0], eeprom |-> e]
         ELSE The({ LET newPtr == (h.configPtr[cbi] - delta) % SizeT
                        h1     == [h EXCEPT !.configPtr[cbi] = 0]
                        e1     == writeConfig(h1, e, cbi - 1, r.cb)
                        h2     == [h1 EXCEPT !.configPtr[cbi - 1] = newPtr]
                    IN  IF r.ub
                        THEN [ub |-> TRUE, header |-> h, eeprom |-> e]
                        ELSE The({ RemoveLoop(hv, ev, cbi + 1, delta) :
                                   hv \in {h2}, ev \in {e1} })
                    : r \in {readConfig(h, e, cbi)} })

\* removeConfig(cbn)
removeConfig(h, e, cbn) ==
    IF RemoveRejects(h, cbn)
    THEN [ok |-> FALSE, ub |-> FALSE, header |-> h, eeprom |-> e]
    ELSE The({ LET r     == readConfig(h1, e, cbn)
                   delta == (r.cb.nEntries * EntrySize + CountSize) % SizeT
               IN  IF r.ub
                   THEN [ok |-> FALSE, ub |-> TRUE, header |-> h, eeprom |-> e]
                   ELSE The({ IF l.ub
                              THEN [ok |-> FALSE, ub |-> TRUE, header |-> h, eeprom |-> e]
                              ELSE [ok |-> TRUE, ub |-> FALSE, header |-> l.header,
                                    eeprom |-> writeHeader(l.header, l.eeprom)]
                              : l \in {RemoveLoop(h1, e, cbn + 1, delta)} })
               : h1 \in {[h EXCEPT !.curConfig =
                            [c \in 0..(N_COMBOS - 1) |-> RemapCombo(h.curConfig[c], cbn)]]} })

\* An addConfig that does not look at the last slot.
AddRejectsNoSlotCheck(h, fs, n) ==
    n * EntrySize > fs

\* The guard of addConfig(toAdd), fs being the value of freeSpace().
AddRejects(h, fs, n) ==
    n * EntrySize > fs \/ h.configPtr[N_CONFIGS - 1] # 0

\* The address addConfig gives the new config: right after the previous one.
NextConfigPtr(prevPtr, prevCount) ==
    (prevPtr + CountSize + prevCount * EntrySize) % SizeT

\* The first unused slot from cbn on (the while loop of addConfig).  The loop
\* has no bound of its own: addConfig gets here with configPtr[7] = 0, which
\* ends it inside the array; the scan of the model ends with the array.
RECURSIVE FirstUnused(_, _)
FirstUnused(h, cbn) ==
    IF cbn < N_CONFIGS /\ h.configPtr[cbn] # 0 THEN FirstUnused(h, cbn + 1) ELSE cbn

\* addConfig(toAdd)
addConfig(h, e, toAdd) ==
    The({ IF f.ub
          THEN [ok |-> FALSE, ub |-> TRUE, header |-> h, eeprom |-> e]
          ELSE IF AddRejects(h, f.fs, toAdd.nEntries)
          THEN [ok |-> FALSE, ub |-> FALSE, header |-> h, eeprom |-> e]
          ELSE The({ The({ [ok |-> TRUE, ub |-> FALSE, header |-> h1,
                            eeprom |-> writeHeader(h1, writeConfig(h1, e, cbn, toAdd))]
                           : h1 \in {[h EXCEPT !.configPtr[cbn] =
                                        NextConfigPtr(h.configPtr[cbn - 1],
                                                      readConfig(h, e, cbn - 1).cb.nEntries)]} })
                     : cbn \in {FirstUnused(h, 1)} })
          : f \in {freeSpace(h, e)} })

\* toCbn(token) for a token that is the decimal numeral of n: uint8_t n =
\* token.toInt() keeps the low 8 bits of the long.
toCbn(h, n) ==
    LET n8 == n % 2^8
    IN  IF n8 >= N_CONFIGS \/ h.configPtr[n8] = 0 THEN N_CONFIGS ELSE n8

\* onRemove() for the word <n>, a decimal numeral: after the usage text there
\* is no return, removeConfig(n) is called in every case.
onRemove(h, e, n) == removeConfig(h, e, toCbn(h, n))

\* The int8_t a long converts to (avr-gcc: modulo 2^8).
ToInt8(n) == ((n + 2^7) % 2^8) - 2^7

\* onUse() for the words <combo> <n>, both decimal numerals: combo is
\* getWord(1).toInt() stored in an int8_t.
onUse(h, e, word, n) ==
    LET combo == ToInt8(word)
        cbn   == toCbn(h, n)
    IN  IF combo < 0 \/ combo >= N_COMBOS \/ cbn = N_CONFIGS
        THEN [ok |-> FALSE, header |-> h, eeprom |-> e]
        ELSE LET h1 == [h EXCEPT !.curConfig[combo] = cbn]
             IN  [ok |-> TRUE, header |-> h1, eeprom |-> writeHeader(h1, e)]

\* A commit that stores the chord itself as the selection.
commitSelectionStoresChord(h, e, pending) ==
    IF pending # h.selection
    THEN LET h1 == [h EXCEPT !.selection = pending]
         IN  [ok |-> TRUE, header |-> h1, eeprom |-> writeHeader(h1, e)]
    ELSE [ok |-> FALSE, header |-> h, eeprom |-> e]

\* The end of the chord handling in loop(): with every button released, a
\* pendingCombo other than the selection becomes the selection.
commitSelection(h, e, pending) ==
    IF pending - 1 # h.selection
    THEN LET h1 == [h EXCEPT !.selection = pending - 1]
         IN  [ok |-> TRUE, header |-> h1, eeprom |-> writeHeader(h1, e)]
    ELSE [ok |-> FALSE, header |-> h, eeprom |-> e]

----------------------------------------------------------------------------
(* The specs of the command new: strings as sequences of character codes *)

CE_TYPE_MASK == 32768       \* 0x8000
KB_CTRL_MASK == 2048        \* 0x0800
KB_ALT_MASK == 1024         \* 0x0400
KB_SHIFT_MASK == 512        \* 0x0200
KB_GUI_MASK == 256          \* 0x0100
ME_TYPE_X == 1
ME_TYPE_Y == 2
ME_TYPE_CLICK == 3
ME1_LEFT_MASK == 1024       \* 0x0400
ME1_MID_MASK == 512         \* 0x0200
ME1_RIGHT_MASK == 256       \* 0x0100
ME3_LEFT_MASK == 1
ME3_RIGHT_MASK == 2
ME3_MID_MASK == 4

\* The codes of the printable characters.
Ascii ==
    " " :> 32 @@ "!" :> 33 @@ "#" :> 35 @@ "$" :> 36 @@ "%" :> 37 @@ "&" :> 38 @@
    "'" :> 39 @@ "(" :> 40 @@ ")" :> 41 @@ "*" :> 42 @@ "+" :> 43 @@ "," :> 44 @@
    "-" :> 45 @@ "." :> 46 @@ "/" :> 47 @@ "0" :> 48 @@ "1" :> 49 @@ "2" :> 50 @@
    "3" :> 51 @@ "4" :> 52 @@ "5" :> 53 @@ "6" :> 54 @@ "7" :> 55 @@ "8" :> 56 @@
    "9" :> 57 @@ ":" :> 58 @@ ";" :> 59 @@ "<" :> 60 @@ "=" :> 61 @@ ">" :> 62 @@
    "?" :> 63 @@ "@" :> 64 @@ "A" :> 65 @@ "B" :> 66 @@ "C" :> 67 @@ "D" :> 68 @@
    "E" :> 69 @@ "F" :> 70 @@ "G" :> 71 @@ "H" :> 72 @@ "I" :> 73 @@ "J" :> 74 @@
    "K" :> 75 @@ "L" :> 76 @@ "M" :> 77 @@ "N" :> 78 @@ "O" :> 79 @@ "P" :> 80 @@
    "Q" :> 81 @@ "R" :> 82 @@ "S" :> 83 @@ "T" :> 84 @@ "U" :> 85 @@ "V" :> 86 @@
    "W" :> 87 @@ "X" :> 88 @@ "Y" :> 89 @@ "Z" :> 90 @@ "[" :> 91 @@ "]" :> 93 @@
    "^" :> 94 @@ "_" :> 95 @@ "a" :> 97 @@ "b" :> 98 @@ "c" :> 99 @@
    "d" :> 100 @@ "e" :> 101 @@ "f" :> 102 @@ "g" :> 103 @@ "h" :> 104 @@ "i" :> 105 @@
    "j" :> 106 @@ "k" :> 107 @@ "l" :> 108 @@ "m" :> 109 @@ "n" :> 110 @@ "o" :> 111 @@
    "p" :> 112 @@ "q" :> 113 @@ "r" :> 114 @@ "s" :> 115 @@ "t" :> 116 @@ "u" :> 117 @@
    "v" :> 118 @@ "w" :> 119 @@ "x" :> 120 @@ "y" :> 121 @@ "z" :> 122 @@ "{" :> 123 @@
    "|" :> 124 @@ "}" :> 125 @@ "~" :> 126

\* The String of a text given character by character.
Str(chars) == [i \in 1..Len(chars) |-> Ascii[chars[i]]]

\* String::charAt(0): 0 for the empty String.  String::remove(0, 1).
CharAt0(sp) == IF Len(sp) = 0 THEN 0 ELSE sp[1]
Remove1(sp) == IF Len(sp) = 0 THEN sp ELSE Tail(sp)

IsLetter(nc, upper) == nc = Ascii[upper] \/ nc = Ascii[upper] + 32
isdigit(nc) == nc >= Ascii["0"] /\ nc <= Ascii["9"]
isPrintable(nc) == nc >= 32 /\ nc <= 126
isHexadecimalDigit(nc) ==
    \/ isdigit(nc)
    \/ (nc >= Ascii["A"] /\ nc <= Ascii["F"])
    \/ (nc >= Ascii["a"] /\ nc <= Ascii["f"])

\* answer |= mask and answer & ~mask, for a mask of one bit.
SetBit(answer, mask) == IF (answer \div mask) % 2 = 1 THEN answer ELSE answer + mask
ClearBit(answer, mask) == IF (answer \div mask) % 2 = 1 THEN answer - mask ELSE answer

\* The mask of the modifier letter nc (ctrl, alt, shift, gui), 0 for any
\* other character.
ModifierMask(nc) ==
    IF IsLetter(nc, "C") THEN KB_CTRL_MASK
    ELSE IF IsLetter(nc, "A") THEN KB_ALT_MASK
    ELSE IF IsLetter(nc, "S") THEN KB_SHIFT_MASK
    ELSE IF IsLetter(nc, "G") THEN KB_GUI_MASK
    ELSE 0

\* The first loop of parseK, parseW and parseC from pass i on: up to 5
\* characters are taken off sp, each a modifier letter but the last read.
RECURSIVE ScanModifiers(_, _, _, _)
ScanModifiers(sp, answer, nc, i) ==
    IF i >= 5
    THEN [sp |-> sp, answer |-> answer, nc |-> nc]
    ELSE LET c == CharAt0(sp)
         IN  IF ModifierMask(c) # 0
             THEN ScanModifiers(Remove1(sp), SetBit(answer, ModifierMask(c)), c, i + 1)
             ELSE [sp |-> Remove1(sp), answer |-> answer, nc |-> c]

\* hh <= '9' ? hh - '0' : hh < 'F' ? hh - 'A' + 10 : hh - 'a' + 10
HexValue(hh) ==
    IF hh <= Ascii["9"] THEN hh - Ascii["0"]
    ELSE IF hh < Ascii["F"] THEN hh - Ascii["A"] + 10
    ELSE hh - Ascii["a"] + 10

\* parseK(spec): the keyboard entry, 0 for a spec it rejects.
parseK(spec) ==
    LET s == ScanModifiers(spec, 0, 0, 0)
    IN  IF s.nc = Ascii["'"]
        THEN LET nc == CharAt0(s.sp)
             IN  IF ~isPrintable(nc)
                 THEN 0
                 ELSE ClearBit(s.answer + (nc % 128), KB_SHIFT_MASK)
        ELSE IF s.nc = Ascii["0"]
        THEN LET nc == CharAt0(s.sp)
                 sp == Remove1(s.sp)
             IN  IF IsLetter(nc, "X") /\ Len(sp) = 2
                 THEN IF ~isHexadecimalDigit(sp[1]) \/ ~isHexadecimalDigit(sp[2])
                      THEN 0
                      ELSE s.answer + ((HexValue(sp[1]) * 16 + HexValue(sp[2])) % 256)
                 ELSE 0
        ELSE 0

\* The sign, the digits and the value of parseW and parseM, nc being the
\* character read last: val is an int8_t, and after the digits nc is the
\* character that follows them.
RECURSIVE ScanDigits(_, _, _, _)
ScanDigits(sp, nc, val, digit) ==
    IF digit >= 3
    THEN [sp |-> sp, nc |-> nc, val |-> val]
    ELSE LET val1 == ToInt8(val * 10 + (nc - Ascii["0"]))
             nc1  == CharAt0(sp)
         IN  IF ~isdigit(nc1)
             THEN [sp |-> Remove1(sp), nc |-> nc1, val |-> val1]
             ELSE ScanDigits(Remove1(sp), nc1, val1, digit + 1)

ScanAmount(sp, nc) ==
    LET isPos == nc = Ascii["+"]
        nc1   == CharAt0(sp)
        d     == ScanDigits(Remove1(sp), nc1, 0, 0)
    IN  IF (nc # Ascii["+"] /\ nc # Ascii["-"]) \/ ~isdigit(nc1)
        THEN [bad |-> TRUE, sp |-> sp, nc |-> nc, value |-> 0]
        ELSE [bad |-> d.val > 255, sp |-> d.sp, nc |-> d.nc,
              value |-> (IF isPos THEN d.val ELSE 0 - d.val) % 256]

\* parseW(spec): the mouse wheel entry, 0 for a spec it rejects.
parseW(spec) ==
    LET s == ScanModifiers(spec, CE_TYPE_MASK, 0, 0)
        a == ScanAmount(s.sp, s.nc)
    IN  IF a.bad THEN 0 ELSE s.answer + a.value

\* The loop of parseC over the button letters, from pass i on.
RECURSIVE ScanButtons(_, _, _, _)
ScanButtons(sp, answer, nc, i) ==
    IF i >= 3 \/ nc = 0
    THEN answer
    ELSE LET mask == IF IsLetter(nc, "L") THEN ME3_LEFT_MASK
                     ELSE IF IsLetter(nc, "M") THEN ME3_MID_MASK
                     ELSE IF IsLetter(nc, "R") THEN ME3_RIGHT_MASK
                     ELSE 0
         IN  IF mask = 0
             THEN 0
             ELSE ScanButtons(Remove1(sp), SetBit(answer, mask), CharAt0(sp), i + 1)

\* parseC(spec): the mouse click entry, 0 for a spec it rejects.
parseC(spec) ==
    LET s == ScanModifiers(spec, CE_TYPE_MASK + ME_TYPE_CLICK * 4096, 0, 0)
    IN  IF s.nc = 0 THEN 0 ELSE ScanButtons(s.sp, s.answer, s.nc, 0)

\* The first loop of parseM from pass i on: modifier letters go to answer[1],
\* the letters of the buttons held (left, mid, right) to answer[0].
RECURSIVE ScanMoveFlags(_, _, _, _, _)
ScanMoveFlags(sp, a0, a1, nc, i) ==
    IF i >= 8
    THEN [sp |-> sp, a0 |-> a0, a1 |-> a1, nc |-> nc]
    ELSE LET c    == CharAt0(sp)
             held == IF IsLetter(c, "L") THEN ME1_LEFT_MASK
                     ELSE IF IsLetter(c, "M") THEN ME1_MID_MASK
                     ELSE IF IsLetter(c, "R") THEN ME1_RIGHT_MASK
                     ELSE 0
         IN  IF ModifierMask(c) # 0
             THEN ScanMoveFlags(Remove1(sp), a0, SetBit(a1, ModifierMask(c)), c, i + 1)
             ELSE IF held # 0
             THEN ScanMoveFlags(Remove1(sp), SetBit(a0, held), a1, c, i + 1)
             ELSE [sp |-> Remove1(sp), a0 |-> a0, a1 |-> a1, nc |-> c]

\* A parseM that gives its second entry the type of the first.
parseMOneType(spec) ==
    LET s == ScanMoveFlags(spec, CE_TYPE_MASK + ME_TYPE_X * 4096,
                           CE_TYPE_MASK + ME_TYPE_X * 4096, 0, 0)
        x == ScanAmount(s.sp, s.nc)
        y == ScanAmount(x.sp, x.nc)
    IN  IF x.bad THEN <<0, 0>>
        ELSE IF y.bad THEN <<0, 0>>
        ELSE <<s.a0 + x.value, s.a1 + y.value>>

\* parseM(spec): the uint32_t returned, as its upper and its lower 16 bits:
\* the x entry and the y entry, both 0 for a spec it rejects.
parseM(spec) ==
    LET s == ScanMoveFlags(spec, CE_TYPE_MASK + ME_TYPE_X * 4096,
                           CE_TYPE_MASK + ME_TYPE_Y * 4096, 0, 0)
        x == ScanAmount(s.sp, s.nc)
        y == ScanAmount(x.sp, x.nc)
    IN  IF x.bad THEN <<0, 0>>
        ELSE IF y.bad THEN <<0, 0>>
        ELSE <<s.a0 + x.value, s.a1 + y.value>>

\* ui.getWord(i): word i of the command line, word 0 being the command; the
\* empty String past the last word.
GetWord(l, i) == IF i + 1 <= Len(l) THEN l[i + 1] ELSE <<>>

\* The while loop of onNew() from the pair of specs eNum on.  bad is the flag
\* of the code; ub is set when the entries of a mouse move are stored with
\* cb.nEntries = 31, the second of them past the end of cb.entry.
RECURSIVE OnNewLoop(_, _, _)
OnNewLoop(l, eNum, cb) ==
    LET spec0 == GetWord(l, 1 + 2 * eNum)
        spec1 == GetWord(l, 2 + 2 * eNum)
        st    == CharAt0(spec0)
        sp0   == Remove1(spec0)
        next(cb1) == The({ OnNewLoop(l, eNum + 1, c) : c \in {cb1} })
    IN  IF cb.nEntries >= MaxBlockEntries \/ Len(spec0) = 0
        THEN [bad |-> FALSE, ub |-> FALSE, cb |-> cb]
        ELSE IF IsLetter(st, "M")
        THEN The({ IF cb.nEntries + 1 >= MaxBlockEntries /\ (d[1] # <<0, 0>> \/ d[2] # <<0, 0>>)
                   THEN [bad |-> TRUE, ub |-> TRUE, cb |-> cb]
                   ELSE IF \/ Len(spec1) = 0
                           \/ cb.nEntries + 1 >= MaxBlockEntries
                           \/ d[1] = <<0, 0>>
                           \/ d[2] = <<0, 0>>
                   THEN [bad |-> TRUE, ub |-> FALSE, cb |-> cb]
                   ELSE next([nEntries |-> cb.nEntries + 2,
                              entry    |-> cb.entry \o <<<<d[1][1], d[2][1]>>,
                                                         <<d[1][2], d[2][2]>>>>])
                   : d \in {<<parseM(sp0), parseM(spec1)>>} })
        ELSE The({ IF Len(spec1) = 0 \/ d[1] = 0 \/ d[2] = 0
                   THEN [bad |-> TRUE, ub |-> FALSE, cb |-> cb]
                   ELSE next([nEntries |-> cb.nEntries + 1,
                              entry    |-> Append(cb.entry, d)])
                   : d \in {IF IsLetter(st, "K") THEN <<parseK(sp0), parseK(spec1)>>
                            ELSE IF IsLetter(st, "W") THEN <<parseW(sp0), parseW(spec1)>>
                            ELSE IF IsLetter(st, "C") THEN <<parseC(sp0), parseC(spec1)>>
                            ELSE <<0, 0>>} })

\* onNew() for the command line l: addConfig(cb) is called with the config
\* parsed unless a spec was bad; called tells whether it was.
onNew(h, e, l) ==
    The({ IF r.ub
          THEN [called |-> FALSE, ok |-> FALSE, ub |-> TRUE, header |-> h, eeprom |-> e,
                cb |-> r.cb]
          ELSE IF r.bad
          THEN [called |-> FALSE, ok |-> FALSE, ub |-> FALSE, header |-> h, eeprom |-> e,
                cb |-> r.cb]
          ELSE addConfig(h, e, r.cb) @@ [called |-> TRUE, cb |-> r.cb]
          : r \in {OnNewLoop(l, 0, [nEntries |-> 0, entry |-> <<>>])} })

----------------------------------------------------------------------------
(* The timer ISR and the handling of movement in loop() *)

COIL_A == 0
COIL_B == 1
TRIGGER_A == 15
TRIGGER_B == 15
RESET_A == 10
RESET_B == 10
MAX_PULSE_SEP == 40000
TRIGGER(c) == IF c = 0 THEN TRIGGER_A ELSE TRIGGER_B
RESET(c) == IF c = 0 THEN RESET_A ELSE RESET_B

\* micros() counts in steps of 4 microseconds (16 MHz): the model keeps
\* micros() / 4, an unsigned long of 2^32 microseconds being 2^30 steps.
MicrosStep == 4
Wrap == 2^30
SepSteps == MAX_PULSE_SEP \div MicrosStep

\* The timer interrupts every 512 microseconds.
TickSteps == 512 \div MicrosStep

\* The time since a rise is followed up to one step past the window; Never
\* stands for no rise recorded since power-on.
AgeCap == SepSteps + 1
Never == AgeCap + 1

\* uint8_t dir = movement == cw ? 0 : 1
DirOf(m) == IF m = "cw" THEN 0 ELSE 1

Coils == {COIL_A, COIL_B}
Other(c) == (c + 1) % 2

\* The statics of the ISR and movement at power-on; no rise recorded yet.
DecoderInit ==
    /\ state = [c \in Coils |-> "low"]
    /\ risingTimestamp = [c \in Coils |-> 0]
    /\ movement = "none"
    /\ now = 0
    /\ pc = "test"
    /\ dir = 0
    /\ nticks = 0
    /\ age = [c \in Coils |-> Never]
    /\ paired = [c \in Coils |-> FALSE]
    /\ repaired = FALSE
    /\ latched = <<>>
    /\ dispatched = <<>>
    /\ interleaved = FALSE
    /\ sampled = [c \in Coils |-> 0]

\* An ISR that sets movement whatever it holds.
IsrCoilOverwrites(d, c, coilVal, t) ==
    IF d.state[c] = "low"
    THEN IF coilVal > TRIGGER(c) THEN [d EXCEPT !.state[c] = "rising"] ELSE d
    ELSE IF d.state[c] = "rising"
    THEN IF (t - d.risingTimestamp[Other(c)]) % Wrap <= SepSteps
         THEN [d EXCEPT !.state[c] = "rose", !.risingTimestamp[c] = t, !.age[c] = 0,
                        !.movement = IF c = 0 THEN "cc" ELSE "cw",
                        !.repaired = d.repaired \/ d.paired[Other(c)],
                        !.paired = [k \in Coils |-> d.age[Other(c)] # Never]]
         ELSE [d EXCEPT !.state[c] = "rose", !.risingTimestamp[c] = t, !.age[c] = 0,
                        !.paired[c] = FALSE]
    ELSE IF coilVal < RESET(c) THEN [d EXCEPT !.state[c] = "low"] ELSE d

\* An ISR that replaces a movement of the other direction.
IsrCoilReplaces(d, c, coilVal, t) ==
    IF d.state[c] = "low"
    THEN IF coilVal > TRIGGER(c) THEN [d EXCEPT !.state[c] = "rising"] ELSE d
    ELSE IF d.state[c] = "rising"
    THEN IF d.movement = (IF c = 0 THEN "cc" ELSE "cw")
         THEN [d EXCEPT !.state[c] = "rose"]
         ELSE IF (t - d.risingTimestamp[Other(c)]) % Wrap <= SepSteps
         THEN [d EXCEPT !.state[c] = "rose", !.risingTimestamp[c] = t, !.age[c] = 0,
                        !.movement = IF c = 0 THEN "cc" ELSE "cw",
                        !.repaired = d.repaired \/ d.paired[Other(c)],
                        !.paired = [k \in Coils |-> d.age[Other(c)] # Never]]
         ELSE [d EXCEPT !.state[c] = "rose", !.risingTimestamp[c] = t, !.age[c] = 0,
                        !.paired[c] = FALSE]
    ELSE IF coilVal < RESET(c) THEN [d EXCEPT !.state[c] = "low"] ELSE d

\* An ISR whose machine stays in rising while movement is not none.
IsrCoilWaits(d, c, coilVal, t) ==
    IF d.state[c] = "low"
    THEN IF coilVal > TRIGGER(c) THEN [d EXCEPT !.state[c] = "rising"] ELSE d
    ELSE IF d.state[c] = "rising"
    THEN IF d.movement # "none"
         THEN d
         ELSE IF (t - d.risingTimestamp[Other(c)]) % Wrap <= SepSteps
         THEN [d EXCEPT !.state[c] = "rose", !.risingTimestamp[c] = t, !.age[c] = 0,
                        !.movement = IF c = 0 THEN "cc" ELSE "cw",
                        !.repaired = d.repaired \/ d.paired[Other(c)],
                        !.paired = [k \in Coils |-> d.age[Other(c)] # Never]]
         ELSE [d EXCEPT !.state[c] = "rose", !.risingTimestamp[c] = t, !.age[c] = 0,
                        !.paired[c] = FALSE]
    ELSE IF coilVal < RESET(c) THEN [d EXCEPT !.state[c] = "low"] ELSE d

\* One pass of the for loop of the ISR: the machine of coil c with the sample
\* coilVal, micros() returning 4 * t.  d holds state, risingTimestamp and
\* movement, and the history of the rises recorded: age, the time since the
\* rise recorded last on each coil; paired, whether that rise has set movement
\* together with a rise recorded on the other coil; repaired, whether a rise
\* so paired has set movement a second time.
IsrCoil(d, c, coilVal, t) ==
    IF d.state[c] = "low"
    THEN IF coilVal > TRIGGER(c) THEN [d EXCEPT !.state[c] = "rising"] ELSE d
    ELSE IF d.state[c] = "rising"
    THEN IF d.movement # "none"
         THEN [d EXCEPT !.state[c] = "rose"]
         ELSE IF (t - d.risingTimestamp[Other(c)]) % Wrap <= SepSteps
         THEN [d EXCEPT !.state[c] = "rose", !.risingTimestamp[c] = t, !.age[c] = 0,
                        !.movement = IF c = 0 THEN "cc" ELSE "cw",
                        !.repaired = d.repaired \/ d.paired[Other(c)],
                        !.paired = [k \in Coils |-> d.age[Other(c)] # Never]]
         ELSE [d EXCEPT !.state[c] = "rose", !.risingTimestamp[c] = t, !.age[c] = 0,
                        !.paired[c] = FALSE]
    ELSE IF coilVal < RESET(c) THEN [d EXCEPT !.state[c] = "low"] ELSE d

\* ISR(TIMERx_COMPA_vect) with the samples coilVal[0] and coilVal[1].
Isr(d, coilVal, t) ==
    The({ IsrCoil(d1, COIL_B, coilVal[COIL_B], t) : d1 \in {IsrCoil(d, COIL_A, coilVal[COIL_A], t)} })

----------------------------------------------------------------------------
(* The buttons in loop(): debouncing, the chord and the selection *)

DEBOUNCE_MILLIS == 10
FINGER_MILLIS == 150

\* millis() is an unsigned long: <<upper 16 bits, lower 16 bits>>.
Zero32 == <<0, 0>>
Add32(t, k) == <<(t[1] + ((t[2] + k) \div 2^16)) % 2^16, (t[2] + k) % 2^16>>
Sub32(a, b) == <<(a[1] - b[1] - (IF a[2] < b[2] THEN 1 ELSE 0)) % 2^16, (a[2] - b[2]) % 2^16>>
Gt32(d, k) == d[1] > 0 \/ d[2] > k

Buttons == 0..2

\* bool curButton[3] for the chord of the levels read: bit i is button i.
Bit(chord, i) == (chord \div (2^i)) % 2

\* uint8_t curCombo = button[2] << 2 | button[1] << 1 | button[0]
CurCombo(b) == 4 * b[2] + 2 * b[1] + b[0]

\* No run of differing samples.
NoRun == 0 - 1

\* The statics of loop() at power-on.
ButtonInit ==
    /\ button = [i \in Buttons |-> 0]
    /\ buttonMillis = [i \in Buttons |-> Zero32]
    /\ pendingCombo = 0
    /\ pendingMillis = Zero32
    /\ millis = Zero32
    /\ curButton = 0
    /\ npasses = 0
    /\ diffSince = [i \in Buttons |-> NoRun]
    /\ chordWas = NoRun
    /\ chordFor = 0

\* A debouncing that believes the second reading that differs.
DebounceAtOnce(b, bm, cur, curMillis) ==
    IF cur # b
    THEN IF bm = Zero32
         THEN [button |-> b, buttonMillis |-> curMillis]
         ELSE [button |-> cur, buttonMillis |-> Zero32]
    ELSE [button |-> b, buttonMillis |-> Zero32]

\* The body of the for loop that debounces: button i read as cur at curMillis.
Debounce(b, bm, cur, curMillis) ==
    IF cur # b
    THEN IF bm = Zero32
         THEN [button |-> b, buttonMillis |-> curMillis]
         ELSE IF Gt32(Sub32(curMillis, bm), DEBOUNCE_MILLIS)
         THEN [button |-> cur, buttonMillis |-> Zero32]
         ELSE [button |-> b, buttonMillis |-> bm]
    ELSE [button |-> b, buttonMillis |-> Zero32]

\* if (pendingCombo == 0) pendingCombo = header.selection + 1, in uint8_t
FirstTime(h, pc0) == IF pc0 = 0 THEN (h.selection + 1) % 2^8 ELSE pc0

\* A chord that becomes the selection when it is accepted, with its buttons
\* still pressed.
ChordSelectsAtOnce(h, e, b, pc0, pm, curMillis) ==
    LET p == FirstTime(h, pc0)
        curCombo == CurCombo(b)
        q == IF /\ curCombo # 0 /\ p # curCombo /\ pm # Zero32
                /\ Gt32(Sub32(curMillis, pm), FINGER_MILLIS)
             THEN curCombo ELSE p
    IN  The({ [pendingCombo |-> q,
               pendingMillis |-> IF q = curCombo THEN Zero32
                                 ELSE IF curCombo # 0 /\ pm = Zero32
                                 THEN curMillis ELSE pm,
               wrote |-> r.ok, header |-> r.header, eeprom |-> r.eeprom]
              : r \in {commitSelection(h, e, q)} })

\* The chord: from static uint8_t pendingCombo to the end of the else if that
\* sets header.selection, with the debounced buttons b at curMillis.
Chord(h, e, b, pc0, pm, curMillis) ==
    LET p == FirstTime(h, pc0)
        curCombo == CurCombo(b)
    IN  IF curCombo # 0
        THEN IF p # curCombo
             THEN IF pm = Zero32
                  THEN [pendingCombo |-> p, pendingMillis |-> curMillis,
                        wrote |-> FALSE, header |-> h, eeprom |-> e]
                  ELSE IF Gt32(Sub32(curMillis, pm), FINGER_MILLIS)
                  THEN [pendingCombo |-> curCombo, pendingMillis |-> Zero32,
                        wrote |-> FALSE, header |-> h, eeprom |-> e]
                  ELSE [pendingCombo |-> p, pendingMillis |-> pm,
                        wrote |-> FALSE, header |-> h, eeprom |-> e]
             ELSE [pendingCombo |-> p, pendingMillis |-> Zero32,
                   wrote |-> FALSE, header |-> h, eeprom |-> e]
        ELSE The({ [pendingCombo |-> p, pendingMillis |-> pm,
                    wrote |-> r.ok, header |-> r.header, eeprom |-> r.eeprom]
                   : r \in {commitSelection(h, e, p)} })

----------------------------------------------------------------------------
(* loop(): the actions of the selected config for a movement *)

KB_VALUE_MASK == 255        \* 0x00FF
ME_VALUE_MASK == 255        \* 0x00FF
ME_TYPE_WHEEL == 0
ME_CTRL_MASK == 2048        \* 0x0800
ME_ALT_MASK == 1024         \* 0x0400
ME_SHIFT_MASK == 512        \* 0x0200
ME_GUI_MASK == 256          \* 0x0100

\* Keyboard.h and Mouse.h
KEY_LEFT_CTRL == 128
KEY_LEFT_SHIFT == 129
KEY_LEFT_ALT == 130
KEY_LEFT_GUI == 131
MOUSE_LEFT == 1
MOUSE_RIGHT == 2
MOUSE_MIDDLE == 4

\* (entry & mask) != 0 for a mask of one bit
HasBit(entry, mask) == (entry \div mask) % 2 = 1

\* ME_TYPE(e): (((e) & ME_TYPE_MASK) >> 12)
ME_TYPE(entry) == (entry \div 2^12) % 4

\* A call of the Keyboard or Mouse library: the key k, the buttons b, or the
\* distances x, y and w.
Call(f, k, b, x, y, w) == [f |-> f, k |-> k, b |-> b, x |-> x, y |-> y, w |-> w]
KeyboardPress(k) == Call("Keyboard.press", k, {}, 0, 0, 0)
KeyboardReleaseAll == Call("Keyboard.releaseAll", 0, {}, 0, 0, 0)
MousePress(b) == Call("Mouse.press", 0, b, 0, 0, 0)
MouseRelease(b) == Call("Mouse.release", 0, b, 0, 0, 0)
MouseClick(b) == Call("Mouse.click", 0, b, 0, 0, 0)
MouseMove(x, y, w) == Call("Mouse.move", 0, {}, ToInt8(x), ToInt8(y), ToInt8(w))

\* What the host sees pressed after a call: the keys and the mouse buttons.
Emit(st, c) ==
    IF c.f = "Keyboard.press" THEN [st EXCEPT !.keys = @ \cup {c.k}]
    ELSE IF c.f = "Keyboard.releaseAll" THEN [st EXCEPT !.keys = {}]
    ELSE IF c.f = "Mouse.press" THEN [st EXCEPT !.buttons = @ \cup c.b]
    ELSE IF c.f = "Mouse.release" THEN [st EXCEPT !.buttons = @ \ c.b]
    ELSE IF c.f = "Mouse.click" THEN [st EXCEPT !.buttons = {}]
    ELSE st

RECURSIVE EmitAll(_, _, _)
EmitAll(st, calls, i) ==
    IF i > Len(calls) THEN st ELSE EmitAll(Emit(st, calls[i]), calls, i + 1)

Released == [keys |-> {}, buttons |-> {}]

\* Nothing is pressed at power-on.
HidInit ==
    /\ hid = Released
    /\ sent = <<>>

\* No text has been handed to a parser.
NoGiven == [type |-> "none"]
NoCode == <<>>

CodecInit ==
    /\ given = NoGiven
    /\ code = NoCode

\* The Keyboard.press() of the modifiers of an entry, in the order of the ifs.
ModifierCalls(entry, ctrl, alt, shift, gui) ==
    LET sel == SelectSeq(<<<<ctrl, KEY_LEFT_CTRL>>, <<alt, KEY_LEFT_ALT>>,
                           <<shift, KEY_LEFT_SHIFT>>, <<gui, KEY_LEFT_GUI>>>>,
                         LAMBDA p : HasBit(entry, p[1]))
    IN  [i \in 1..Len(sel) |-> KeyboardPress(sel[i][2])]

MouseModifierCalls(entry) ==
    ModifierCalls(entry, ME_CTRL_MASK, ME_ALT_MASK, ME_SHIFT_MASK, ME_GUI_MASK)

\* uint8_t m of the buttons of an entry, for the masks of left, middle, right.
MouseButtons(entry, left, mid, right) ==
    (IF HasBit(entry, left) THEN {MOUSE_LEFT} ELSE {})
    \cup (IF HasBit(entry, mid) THEN {MOUSE_MIDDLE} ELSE {})
    \cup (IF HasBit(entry, right) THEN {MOUSE_RIGHT} ELSE {})

\* char eType of an entry
EType(entryA) ==
    IF ~HasBit(entryA, CE_TYPE_MASK) THEN "k"
    ELSE IF ME_TYPE(entryA) = ME_TYPE_CLICK THEN "c"
    ELSE IF ME_TYPE(entryA) = ME_TYPE_WHEEL THEN "w"
    ELSE "m"

\* A mouse move that leaves the buttons it pressed.
CaseMKeepsButtons(entryA, entryB) ==
    <<MousePress(MouseButtons(entryA, ME1_LEFT_MASK, ME1_MID_MASK, ME1_RIGHT_MASK))>>
    \o MouseModifierCalls(entryB)
    \o <<MouseMove(entryA % (ME_VALUE_MASK + 1), entryB % (ME_VALUE_MASK + 1), 0),
         KeyboardReleaseAll>>

\* The cases of switch (eType): the calls made for an entry.
CaseK(entryA) ==
    ModifierCalls(entryA, KB_CTRL_MASK, KB_ALT_MASK, KB_SHIFT_MASK, KB_GUI_MASK)
    \o <<KeyboardPress(entryA % (KB_VALUE_MASK + 1)), KeyboardReleaseAll>>

CaseM(entryA, entryB) ==
    <<MousePress(MouseButtons(entryA, ME1_LEFT_MASK, ME1_MID_MASK, ME1_RIGHT_MASK))>>
    \o MouseModifierCalls(entryB)
    \o <<MouseMove(entryA % (ME_VALUE_MASK + 1), entryB % (ME_VALUE_MASK + 1), 0),
         KeyboardReleaseAll,
         MouseRelease({MOUSE_LEFT, MOUSE_MIDDLE, MOUSE_RIGHT})>>

CaseW(entryA) ==
    MouseModifierCalls(entryA)
    \o <<MouseMove(0, 0, entryA % (ME_VALUE_MASK + 1)), KeyboardReleaseAll>>

CaseC(entryA) ==
    MouseModifierCalls(entryA)
    \o <<MouseClick(MouseButtons(entryA, ME3_LEFT_MASK, ME3_MID_MASK, ME3_RIGHT_MASK)),
         KeyboardReleaseAll>>

\* The for loop over the entries of cb from entry e on (entry[e - 1] of the
\* code), d the column (dir + 1), st what the host sees pressed.  Each action
\* is recorded with the codes it was made from, its calls and what is left
\* pressed after it.  A mouse move reads the entry after its own: past
\* cb.nEntries that entry was never set by readConfig (ub).
RECURSIVE ForEntries(_, _, _, _, _)
ForEntries(cb, d, e, st, acts) ==
    IF e > cb.nEntries
    THEN [ub |-> FALSE, st |-> st, acts |-> acts]
    ELSE LET entryA == cb.entry[e][d]
             eType == EType(entryA)
         IN  IF eType = "m" /\ e + 1 > cb.nEntries
             THEN [ub |-> TRUE, st |-> st, acts |-> acts]
             ELSE The({ ForEntries(cb, d, e + Len(a.codes), a.st, Append(acts, a))
                        : a \in { The({ [eType |-> eType, codes |-> r.codes, calls |-> r.calls,
                                         st |-> EmitAll(st, r.calls, 1)]
                                        : r \in { IF eType = "k"
                                                  THEN [codes |-> <<entryA>>, calls |-> CaseK(entryA)]
                                                  ELSE IF eType = "m"
                                                  THEN [codes |-> <<entryA, cb.entry[e + 1][d]>>,
                                                        calls |-> CaseM(entryA, cb.entry[e + 1][d])]
                                                  ELSE IF eType = "w"
                                                  THEN [codes |-> <<entryA>>, calls |-> CaseW(entryA)]
                                                  ELSE [codes |-> <<entryA>>, calls |-> CaseC(entryA)] } }) } })

\* loop() with movement m: readConfig() of the config of the selection, whose
\* result is not looked at, and the actions of its entries.
Actions(h, e, m) ==
    IF h.selection >= N_COMBOS
    THEN [ub |-> TRUE, cbn |-> 0, st |-> Released, acts |-> <<>>]
    ELSE The({ IF r.ub \/ ~r.ok
               THEN [ub |-> TRUE, cbn |-> h.curConfig[h.selection], st |-> Released, acts |-> <<>>]
               ELSE ForEntries(r.cb, DirOf(m) + 1, 1, Released, <<>>)
                    @@ [cbn |-> h.curConfig[h.selection]]
               : r \in {readConfig(h, e, h.curConfig[h.selection])} })

----------------------------------------------------------------------------
(* Inputs *)

\* The config onNew() builds for slot with n pairs of keyboard specs k0xNN
\* 0xNN: every pair of every slot has its own key codes.
NewConfig(slot, n) ==
    [nEntries |-> n,
     entry    |-> [i \in 1..n |-> <<16 * slot + 2 * i - 1, 16 * slot + 2 * i>>]]

AddCounts == 0..MaxEntries
RemoveInputs == 0..N_CONFIGS
ComboInputs == {3, N_COMBOS}
CbnInputs == 0..N_CONFIGS
PendingInputs == {1, N_COMBOS}

\* The stores the model starts from: the synthesized store, and that store
\* after 3 and after 7 commands new.
InitConfigs == {0, 3, N_CONFIGS - 1}

\* The store after k commands new on the synthesized store, the config for
\* slot s having 1 + (s % MaxEntries) pairs.
RECURSIVE Populated(_)
Populated(k) ==
    IF k = 0
    THEN [header |-> readHeader(<<>>).header, eeprom |-> readHeader(<<>>).eeprom]
    ELSE The({ The({ [header |-> r.header, eeprom |-> r.eeprom]
                     : r \in {addConfig(hv, ev, NewConfig(k, 1 + (k % MaxEntries)))} })
               : hv \in {Populated(k - 1).header}, ev \in {Populated(k - 1).eeprom} })

----------------------------------------------------------------------------
(* The state machine *)

Done(op, a, b, ok) == [op |-> op, a |-> a, b |-> b, ok |-> ok]

\* What an operation that returned r leaves: the header and the EEPROM, and
\* one more operation counted when it changed either.
Result(r, op, a, b) ==
    /\ header' = r.header
    /\ eeprom' = r.eeprom
    /\ ub' = r.ub
    /\ last' = Done(op, a, b, r.ok)
    /\ nops' = IF r.ok THEN nops + 1 ELSE nops
    /\ UNCHANGED consoleVars
    /\ UNCHANGED decoderVars
    /\ UNCHANGED <<buttonVars, hidVars, codecVars>>

\* setup() has called readHeader() on an erased EEPROM, and the user has
\* added some configs.
Init ==
    /\ \E k \in InitConfigs : \E p \in {Populated(k)} :
          /\ header = p.header
          /\ eeprom = p.eeprom
    /\ ub = FALSE
    /\ nops = 0
    /\ last = Done("load", 0, 0, FALSE)
    /\ line = <<>>
    /\ cbRead = [nEntries |-> 0, entry |-> <<>>]
    /\ DecoderInit
    /\ ButtonInit
    /\ HidInit
    /\ CodecInit

\* A reset: setup() calls readHeader().
Setup ==
    /\ ~ub
    /\ \E r \in {readHeader(eeprom)} :
          /\ header' = r.header
          /\ eeprom' = r.eeprom
          /\ last' = Done("load", 0, 0, r.ok)
    /\ UNCHANGED <<ub, nops>>
    /\ UNCHANGED consoleVars
    /\ UNCHANGED decoderVars
    /\ UNCHANGED <<buttonVars, hidVars, codecVars>>

\* The command new with n pairs of specs: onNew() calls addConfig(cb).
New(n) ==
    /\ ~ub /\ nops < MaxOps
    /\ \E r \in {addConfig(header, eeprom, NewConfig(nConfigs(header) % N_CONFIGS, n))} :
          Result(r, "add", n, 0)

\* removeConfig(cbn)
Remove(cbn) ==
    /\ ~ub /\ nops < MaxOps
    /\ \E r \in {removeConfig(header, eeprom, cbn)} :
          Result(r, "remove", cbn, 0)

\* The command use <combo> <n>
Use(combo, n) ==
    /\ ~ub /\ nops < MaxOps
    /\ \E r \in {onUse(header, eeprom, combo, n)} :
          Result(r @@ [ub |-> FALSE], "use", combo, n)

\* A pass of loop() with all buttons released and the chord pending
\* accepted before.
Commit(pending) ==
    /\ ~ub /\ nops < MaxOps
    /\ \E r \in {commitSelection(header, eeprom, pending)} :
          /\ r.ok
          /\ Result(r @@ [ub |-> FALSE], "commit", pending, 0)

DoNew == \E n \in AddCounts : New(n)
DoRemove == \E cbn \in RemoveInputs : Remove(cbn)
DoUse == \E combo \in ComboInputs, n \in CbnInputs : Use(combo, n)
DoCommit == \E p \in PendingInputs : Commit(p)

Next == Setup \/ DoNew \/ DoRemove \/ DoUse \/ DoCommit

Spec == Init /\ [][Next]_vars

----------------------------------------------------------------------------
(* Power-on: setup() calls readHeader() on whatever the EEPROM holds *)

\* The global header before setup() runs: zero-initialized.
ZeroHeader ==
    [fingerprint |-> 0,
     selection   |-> 0,
     curConfig   |-> [c \in 0..(N_COMBOS - 1) |-> 0],
     configPtr   |-> [s \in 0..(N_CONFIGS - 1) |-> 0]]

\* The bytes a device may hold at addresses 0 and 1 at power-on: those of
\* the fingerprint, in either place, a zero and an erased byte.
BootBytes == {Lo(FINGERPRINT), Hi(FINGERPRINT), 0, Erased}
BootSelections == {0, 1, N_COMBOS - 1}

\* The EEPROM of a store with k added configs, its first three bytes replaced.
BootImage(k, b0, b1, sel) ==
    The({ [i \in 1..Len(e) |-> IF i = 1 THEN b0 ELSE IF i = 2 THEN b1
                               ELSE IF i = 3 THEN sel ELSE e[i]]
          : e \in {Populated(k).eeprom} })

LoadInit ==
    /\ \/ eeprom = <<>>
       \/ \E k \in InitConfigs, b0 \in BootBytes, b1 \in BootBytes, sel \in BootSelections :
             eeprom = BootImage(k, b0, b1, sel)
    /\ header = ZeroHeader
    /\ ub = FALSE
    /\ nops = 0
    /\ last = Done("boot", 0, 0, FALSE)
    /\ line = <<>>
    /\ cbRead = [nEntries |-> 0, entry |-> <<>>]
    /\ DecoderInit
    /\ ButtonInit
    /\ HidInit
    /\ CodecInit

LoadNext == Setup

LoadSpec == LoadInit /\ [][LoadNext]_vars

----------------------------------------------------------------------------
(* Calls of readConfig(cbn, cb) on the stores the command new builds *)

\* cbn is an int8_t: the slots, and the values next to them on either side.
ReadInputs == (0 - 1)..N_CONFIGS

\* readConfig(cbn, cb) with the caller's cb
Read(cbn) ==
    /\ ~ub
    /\ \E r \in {readConfig(header, eeprom, cbn)} :
          /\ cbRead' = r.cb
          /\ ub' = r.ub
          /\ last' = Done("read", cbn, 0, r.ok)
    /\ UNCHANGED <<header, eeprom, nops, line>>
    /\ UNCHANGED decoderVars
    /\ UNCHANGED <<buttonVars, hidVars, codecVars>>

DoRead == \E cbn \in ReadInputs : Read(cbn)

ReadNext == DoRead \/ DoNew

ReadSpec == Init /\ [][ReadNext]_vars

----------------------------------------------------------------------------
(* Calls of setConfig(combo, cbn) and commands use <combo> <n> *)

\* combo (a uint8_t) for setConfig: the first, a middle and the last combo,
\* and the two values after the last.
SetComboInputs == {0, 3, N_COMBOS - 1, N_COMBOS, N_CONFIGS}

\* The numeral <combo> of the command use: a combo, the two values after the
\* last combo, and a numeral beyond the int8_t that holds it.
UseComboWords == {3, N_COMBOS, N_CONFIGS, 2^8 + 3}

\* setConfig(combo, cbn)
SetConfig(combo, cbn) ==
    /\ ~ub /\ nops < MaxOps
    /\ \E r \in {setConfig(header, eeprom, combo, cbn)} :
          Result(r @@ [ub |-> FALSE], "set", combo, cbn)

DoSetConfig == \E combo \in SetComboInputs, cbn \in CbnInputs : SetConfig(combo, cbn)
DoUseWords == \E word \in UseComboWords, n \in CbnInputs : Use(word, n)

UseNext == DoSetConfig \/ DoUseWords

UseSpec == Init /\ [][UseNext]_vars

----------------------------------------------------------------------------
(* Commands new <spec> <spec> ... *)

MaxSpecPairs == 33          \* pairs of specs in one command new

\* Pairs of specs the parsers accept.
GoodK == <<Str(<<"k", "0", "x", "D", "A">>), Str(<<"0", "x", "D", "9">>)>>
GoodM == <<Str(<<"m", "+", "1", "+", "1">>), Str(<<"-", "1", "-", "1">>)>>
GoodW == <<Str(<<"w", "+", "1">>), Str(<<"-", "1">>)>>
GoodC == <<Str(<<"c", "L">>), Str(<<"R">>)>>

\* The key of code 0x00 without modifiers, for both directions.
ZeroKey == <<Str(<<"k", "0", "x", "0", "0">>), Str(<<"0", "x", "0", "0">>)>>

\* What a command may end with: nothing more, a good pair, the key 0x00, or a pair with a
\* bad type letter, a bad clockwise or counterclockwise spec of each type, or
\* no counterclockwise spec.
LastSpecs ==
    { <<>>, GoodK, GoodM, GoodW, GoodC, ZeroKey,
      <<Str(<<"x", "0", "x", "D", "A">>), Str(<<"0", "x", "D", "9">>)>>,
      <<Str(<<"k", "0", "x", "D">>), Str(<<"0", "x", "D", "9">>)>>,
      <<Str(<<"k", "0", "x", "D", "A">>), Str(<<"0", "y", "D", "9">>)>>,
      <<Str(<<"k", "0", "x", "D", "A">>)>>,
      <<Str(<<"m", "+", "1">>), Str(<<"-", "1", "-", "1">>)>>,
      <<Str(<<"m", "+", "1", "+", "1">>), Str(<<"-", "1", "1">>)>>,
      <<Str(<<"m", "+", "1", "+", "1">>)>>,
      <<Str(<<"w", "1">>), Str(<<"-", "1">>)>>,
      <<Str(<<"c">>), Str(<<"R">>)>>,
      <<Str(<<"c", "L">>), Str(<<"Q">>)>> }

RECURSIVE Repeat(_, _)
Repeat(words, n) == IF n = 0 THEN <<>> ELSE words \o Repeat(words, n - 1)

\* The command new with nM mouse moves, then nK keystrokes, then last.
Request(nM, nK, lastSpecs) ==
    <<Str(<<"n", "e", "w">>)>> \o Repeat(GoodM, nM) \o Repeat(GoodK, nK) \o lastSpecs

\* A command new has been received by a device with some configs.
NewInit ==
    /\ \E k \in InitConfigs : \E p \in {Populated(k)} :
          /\ header = p.header
          /\ eeprom = p.eeprom
    /\ \E nM \in 0..MaxSpecPairs, nK \in 0..MaxSpecPairs, lastSpecs \in LastSpecs :
          /\ nM + nK < MaxSpecPairs \/ (nM + nK = MaxSpecPairs /\ lastSpecs = <<>>)
          /\ line = Request(nM, nK, lastSpecs)
    /\ ub = FALSE
    /\ nops = 0
    /\ last = Done("load", 0, 0, FALSE)
    /\ cbRead = [nEntries |-> 0, entry |-> <<>>]
    /\ DecoderInit
    /\ ButtonInit
    /\ HidInit
    /\ CodecInit

\* ui.run() hands the command line to onNew().
OnNew ==
    /\ ~ub
    /\ line # <<>>
    /\ \E r \in {onNew(header, eeprom, line)} :
          /\ header' = r.header
          /\ eeprom' = r.eeprom
          /\ ub' = r.ub
          /\ last' = Done("new", r.cb.nEntries, r.called, r.ok)
          /\ nops' = IF r.ok THEN nops + 1 ELSE nops
    /\ line' = <<>>
    /\ UNCHANGED cbRead
    /\ UNCHANGED decoderVars
    /\ UNCHANGED <<buttonVars, hidVars, codecVars>>

NewNext == OnNew

NewSpec == NewInit /\ [][NewNext]_vars

----------------------------------------------------------------------------
(* The decoder: timer interrupts while loop() runs *)

MaxTicks == 7               \* timer interrupts and idle stretches in a behaviour

\* analogRead() of a coil: below the reset level, between the two levels,
\* above the trigger level.
Samples == {RESET_A - 1, TRIGGER_A, TRIGGER_A + 1}

\* Interrupts in a row that find nothing to do: within the window, past the
\* window, and as many as make micros() come round to the same value.
IdleTicks == {76, 79, Wrap \div TickSteps}

Older(a, steps) ==
    [c \in Coils |-> IF a[c] = Never THEN Never
                     ELSE IF a[c] + steps >= AgeCap THEN AgeCap ELSE a[c] + steps]

\* The timer interrupt: the ISR runs with the samples vA and vB.
Tick(vA, vB) ==
    /\ nticks < MaxTicks
    /\ \E d \in {Isr([state |-> state, risingTimestamp |-> risingTimestamp,
                      movement |-> movement, age |-> age, paired |-> paired,
                      repaired |-> repaired],
                     [c \in Coils |-> IF c = COIL_A THEN vA ELSE vB], now)} :
          /\ state' = d.state
          /\ risingTimestamp' = d.risingTimestamp
          /\ movement' = d.movement
          /\ age' = Older(d.age, TickSteps)
          /\ paired' = d.paired
          /\ repaired' = d.repaired
          /\ latched' = IF d.movement # movement THEN Append(latched, d.movement) ELSE latched
    /\ sampled' = [c \in Coils |-> IF c = COIL_A THEN vA ELSE vB]
    /\ now' = (now + TickSteps) % Wrap
    /\ nticks' = nticks + 1
    /\ interleaved' = (interleaved \/ (pc # "test" /\ \E c \in Coils : state[c] = "rising"))
    /\ UNCHANGED <<pc, dir, dispatched>>
    /\ UNCHANGED <<storeVars, consoleVars, buttonVars, hidVars, codecVars>>

\* k timer interrupts with both coils at rest: no machine is in state rising,
\* a low coil stays at or below its trigger level and a coil that rose at or
\* above its reset level (as the trigger level is), so that the ISR changes
\* nothing.
Idle(k) ==
    /\ nticks < MaxTicks
    /\ \A c \in Coils : state[c] # "rising"
    /\ now' = (now + k * TickSteps) % Wrap
    /\ age' = Older(age, IF k * TickSteps >= AgeCap THEN AgeCap ELSE k * TickSteps)
    /\ nticks' = nticks + 1
    /\ sampled' = [c \in Coils |-> TRIGGER(c)]
    /\ UNCHANGED <<state, risingTimestamp, movement, pc, dir, paired, repaired, latched, dispatched, interleaved>>
    /\ UNCHANGED <<storeVars, consoleVars, buttonVars, hidVars, codecVars>>

\* A loop() that goes on to act whatever movement holds.
LoopTestAlways ==
    /\ pc = "test"
    /\ pc' = "dir"
    /\ UNCHANGED <<state, risingTimestamp, movement, now, dir, nticks, age, paired, repaired,
                   latched, dispatched, interleaved, sampled>>
    /\ UNCHANGED <<storeVars, consoleVars, buttonVars, hidVars, codecVars>>

\* loop(): if (movement != none)
LoopTest ==
    /\ pc = "test"
    /\ movement # "none"
    /\ pc' = "dir"
    /\ UNCHANGED <<state, risingTimestamp, movement, now, dir, nticks, age, paired, repaired,
                   latched, dispatched, interleaved, sampled>>
    /\ UNCHANGED <<storeVars, consoleVars, buttonVars, hidVars, codecVars>>

\* loop(): uint8_t dir = movement == cw ? 0 : 1, and the actions of the
\* selected config for dir
LoopDir ==
    /\ pc = "dir"
    /\ dir' = IF movement = "cw" THEN 0 ELSE 1
    /\ dispatched' = Append(dispatched, dir')
    /\ pc' = "clear"
    /\ UNCHANGED <<state, risingTimestamp, movement, now, nticks, age, paired, repaired, latched, interleaved, sampled>>
    /\ UNCHANGED <<storeVars, consoleVars, buttonVars, hidVars, codecVars>>

\* loop(): movement = none
LoopClear ==
    /\ pc = "clear"
    /\ movement' = "none"
    /\ pc' = "test"
    /\ UNCHANGED <<state, risingTimestamp, now, dir, nticks, age, paired, repaired,
                   latched, dispatched, interleaved, sampled>>
    /\ UNCHANGED <<storeVars, consoleVars, buttonVars, hidVars, codecVars>>

DoTick == \E vA \in Samples, vB \in Samples : Tick(vA, vB)
DoIdle == \E k \in IdleTicks : Idle(k)

\* setup() has run on a device with the synthesized store.
DecoderStart ==
    /\ \E p \in {Populated(0)} :
          /\ header = p.header
          /\ eeprom = p.eeprom
    /\ ub = FALSE
    /\ nops = 0
    /\ last = Done("load", 0, 0, FALSE)
    /\ line = <<>>
    /\ cbRead = [nEntries |-> 0, entry |-> <<>>]
    /\ DecoderInit
    /\ ButtonInit
    /\ HidInit
    /\ CodecInit

DecoderNext == DoTick \/ DoIdle \/ LoopTest \/ LoopDir \/ LoopClear

DecoderSpec == DecoderStart /\ [][DecoderNext]_vars

\* loop() is called again and again from main() and each pass ends: the
\* handling of movement always goes on.
DecoderLoop == LoopTest \/ LoopDir \/ LoopClear

DecoderFairSpec == DecoderSpec /\ WF_vars(DecoderLoop)

----------------------------------------------------------------------------
(* The buttons: passes of loop() while the user presses and releases *)

MaxPasses == 6              \* passes of loop() in a behaviour

\* The chords of levels a pass reads: none, A, B, A and B, all three.
RawChords == {0, 1, 2, 3, 7}

\* The milliseconds from one pass to the next: within the debounce window,
\* past it, and past the finger window.
PassMillis == {5, DEBOUNCE_MILLIS + 1, FINGER_MILLIS + 1}

\* millis() at the first pass: 0, and 11 ms before it comes round to 0.
BootMillis == {Zero32, <<2^16 - 1, 2^16 - (DEBOUNCE_MILLIS + 1)>>}

\* The time t and d more, up to cap.
Upto(t, d, cap) == IF t + d >= cap THEN cap ELSE t + d

\* One pass of the button code of loop(): the levels read are those of the
\* chord raw, and the next pass comes d milliseconds later.
Pass(raw, d) ==
    /\ npasses < MaxPasses
    /\ \E db \in {[i \in Buttons |-> Debounce(button[i], buttonMillis[i], Bit(raw, i), millis)]} :
       \E b \in {[i \in Buttons |-> db[i].button]} :
       \E r \in {Chord(header, eeprom, b, pendingCombo, pendingMillis, millis)} :
          /\ button' = b
          /\ buttonMillis' = [i \in Buttons |-> db[i].buttonMillis]
          /\ pendingCombo' = r.pendingCombo
          /\ pendingMillis' = r.pendingMillis
          /\ header' = r.header
          /\ eeprom' = r.eeprom
          /\ last' = Done("pass", raw, d, r.wrote)
          /\ diffSince' = [i \in Buttons |->
                              IF Bit(raw, i) = b[i] THEN NoRun
                              ELSE Upto(IF diffSince[i] = NoRun THEN 0 ELSE diffSince[i],
                                        d, DEBOUNCE_MILLIS + 1)]
          /\ chordWas' = CurCombo(b)
          /\ chordFor' = Upto(IF CurCombo(b) = chordWas THEN chordFor ELSE 0,
                              d, FINGER_MILLIS + 1)
    /\ curButton' = raw
    /\ millis' = Add32(millis, d)
    /\ npasses' = npasses + 1
    /\ UNCHANGED <<ub, nops>>
    /\ UNCHANGED <<consoleVars, decoderVars, hidVars, codecVars>>

DoPass == \E raw \in RawChords, d \in PassMillis : Pass(raw, d)

\* setup() has run on a device with the synthesized store; the first pass of
\* loop() is about to read the buttons.
ButtonStart ==
    /\ \E p \in {Populated(0)} :
          /\ header = p.header
          /\ eeprom = p.eeprom
    /\ ub = FALSE
    /\ nops = 0
    /\ last = Done("load", 0, 0, FALSE)
    /\ line = <<>>
    /\ cbRead = [nEntries |-> 0, entry |-> <<>>]
    /\ DecoderInit
    /\ button = [i \in Buttons |-> 0]
    /\ buttonMillis = [i \in Buttons |-> Zero32]
    /\ pendingCombo = 0
    /\ pendingMillis = Zero32
    /\ millis \in BootMillis
    /\ curButton = 0
    /\ npasses = 0
    /\ diffSince = [i \in Buttons |-> NoRun]
    /\ chordWas = NoRun
    /\ chordFor = 0
    /\ HidInit
    /\ CodecInit

ButtonNext == DoPass

ButtonSpec == ButtonStart /\ [][ButtonNext]_vars

----------------------------------------------------------------------------
(* Chords and console commands on the synthesized store *)

\* The chords of levels a pass reads: none, A and B, all three.
ChordLevels == {0, 3, N_COMBOS}

ChordMillis == {DEBOUNCE_MILLIS + 1, FINGER_MILLIS + 1}

DoChordPass == \E raw \in ChordLevels, d \in ChordMillis : Pass(raw, d)
DoChordNew == New(1)
DoChordRemove == Remove(1)
DoChordUse == Use(N_COMBOS - 1, 1)

ChordNext == DoChordPass \/ DoChordNew \/ DoChordRemove \/ DoChordUse

ChordSpec == ButtonStart /\ [][ChordNext]_vars

----------------------------------------------------------------------------
(* Movements handled by loop() with configs of every type of entry *)

MaxPairs == 3               \* pairs of specs in the command new of the user

\* Pairs of specs with modifiers and buttons: a key, a mouse move, a wheel
\* roll and a click.
ActionPairs ==
    { <<Str(<<"k", "c", "s", "0", "x", "4", "1">>), Str(<<"g", "'", "z">>)>>,
      <<Str(<<"m", "l", "c", "+", "5", "-", "3">>), Str(<<"r", "m", "g", "-", "1", "+", "2">>)>>,
      <<Str(<<"w", "a", "+", "3">>), Str(<<"-", "2">>)>>,
      <<Str(<<"c", "g", "L", "M">>), Str(<<"s", "R">>)>> }

\* The words of the commands new the user may have typed.
RECURSIVE PairLists(_)
PairLists(n) ==
    IF n = 0 THEN {<<>>}
    ELSE PairLists(n - 1)
         \cup { l \o p : l \in { q \in PairLists(n - 1) : Len(q) = 2 * (n - 1) },
                         p \in ActionPairs }

\* loop() handles the movement m.
Dispatch(m) ==
    /\ ~ub
    /\ \E r \in {Actions(header, eeprom, m)} :
          /\ ub' = r.ub
          /\ hid' = r.st
          /\ sent' = r.acts
          /\ last' = Done("move", r.cbn, DirOf(m), ~r.ub)
    /\ UNCHANGED <<header, eeprom, nops>>
    /\ UNCHANGED <<consoleVars, decoderVars, buttonVars, codecVars>>

DoDispatch == \E m \in {"cw", "cc"} : Dispatch(m)

\* The user has typed a command new on a device with the synthesized store.
DispatchInit ==
    /\ \E p \in {Populated(0)} :
          /\ header = p.header
          /\ eeprom = p.eeprom
    /\ \E l \in PairLists(MaxPairs) :
          /\ l # <<>>
          /\ line = <<Str(<<"n", "e", "w">>)>> \o l
    /\ ub = FALSE
    /\ nops = 0
    /\ last = Done("load", 0, 0, FALSE)
    /\ cbRead = [nEntries |-> 0, entry |-> <<>>]
    /\ DecoderInit
    /\ ButtonInit
    /\ HidInit
    /\ CodecInit

\* use <selection> <n> for the selection of the synthesized store
DoUseSelected == \E n \in {0, 1} : Use(DefaultSelection, n)

DispatchNext == OnNew \/ DoUseSelected \/ DoDispatch

DispatchSpec == DispatchInit /\ [][DispatchNext]_vars

----------------------------------------------------------------------------
(* The buttons, the command use and movements together *)

\* The chords read and the time from pass to pass: A, A and B; past the
\* debounce window and past the finger window.
PanelChords == {0, 1, 3}
PanelMillis == {DEBOUNCE_MILLIS + 1, FINGER_MILLIS + 1}

\* The combo and the configs of the commands use.
PanelCombos == {1}
PanelConfigs == {1, 2}

DoPanelPass == \E raw \in PanelChords, d \in PanelMillis : Pass(raw, d)
DoPanelUse == \E combo \in PanelCombos, n \in PanelConfigs : Use(combo, n)
DoPanelDispatch == Dispatch("cw")

\* setup() has run on a device with the configs 0..3, every combo using
\* config 0.
PanelInit ==
    /\ \E p \in {Populated(3)} :
          /\ header = p.header
          /\ eeprom = p.eeprom
    /\ ub = FALSE
    /\ nops = 0
    /\ last = Done("load", 0, 0, FALSE)
    /\ line = <<>>
    /\ cbRead = [nEntries |-> 0, entry |-> <<>>]
    /\ DecoderInit
    /\ ButtonInit
    /\ HidInit
    /\ CodecInit

PanelNext == DoPanelPass \/ DoPanelUse \/ DoPanelDispatch

PanelSpec == PanelInit /\ [][PanelNext]_vars

----------------------------------------------------------------------------
(* onDisplay(): what is printed for an entry, and the parsers on the text *)
(* of an action                                                           *)

\* The letters printed for the bits of an entry.
ModifierLetters ==
    [c |-> ME_CTRL_MASK, a |-> ME_ALT_MASK, s |-> ME_SHIFT_MASK, g |-> ME_GUI_MASK]
HeldLetters == [l |-> ME1_LEFT_MASK, m |-> ME1_MID_MASK, r |-> ME1_RIGHT_MASK]
ClickLetters == [l |-> ME3_LEFT_MASK, m |-> ME3_MID_MASK, r |-> ME3_RIGHT_MASK]
Printed(entry, letters) == { l \in DOMAIN letters : HasBit(entry, letters[l]) }

\* printConfigK for one direction: the modifier letters, then char ks as
\* 'ks or as 0x and the hexadecimal digits of (uint8_t)ks.
printConfigK(entry) ==
    [type |-> "k", mods |-> Printed(entry, ModifierLetters),
     value |-> entry % (KB_VALUE_MASK + 1)]

\* printConfigW for one direction: the modifier letters and int8_t val.
printConfigW(entry) ==
    [type |-> "w", mods |-> Printed(entry, ModifierLetters),
     value |-> ToInt8(entry % (ME_VALUE_MASK + 1))]

\* printConfigC for one direction: the modifier and the button letters.
printConfigC(entry) ==
    [type |-> "c", mods |-> Printed(entry, ModifierLetters),
     buttons |-> Printed(entry, ClickLetters)]

\* printConfigM for one direction: the modifier letters of entryB, the
\* button letters of entryA, int8_t val of entryA and of entryB.
printConfigM(entryA, entryB) ==
    [type |-> "m", mods |-> Printed(entryB, ModifierLetters),
     buttons |-> Printed(entryA, HeldLetters),
     x |-> ToInt8(entryA % (ME_VALUE_MASK + 1)),
     y |-> ToInt8(entryB % (ME_VALUE_MASK + 1))]

\* onDisplay(): the switch on eType for the entry entryA, entryB being the
\* entry after it.
DisplayEntry(entryA, entryB) ==
    IF EType(entryA) = "k" THEN printConfigK(entryA)
    ELSE IF EType(entryA) = "m" THEN printConfigM(entryA, entryB)
    ELSE IF EType(entryA) = "w" THEN printConfigW(entryA)
    ELSE printConfigC(entryA)

\* The text of an action as the help of new gives it: the modifier letters,
\* the button letters, and the key or the amounts.
InOrder(letters, chosen) ==
    SelectSeq(letters, LAMBDA l : l \in chosen)
DigitText(n) == SubSeq(<<"0", "1", "2", "3", "4", "5", "6", "7", "8", "9">>, n + 1, n + 1)
DecimalText(n) ==
    IF n < 10 THEN DigitText(n)
    ELSE IF n < 100 THEN DigitText(n \div 10) \o DigitText(n % 10)
    ELSE DigitText(n \div 100) \o DigitText((n \div 10) % 10) \o DigitText(n % 10)
AmountText(n) ==
    IF n >= 0 THEN <<"+">> \o DecimalText(n) ELSE <<"-">> \o DecimalText(0 - n)
KeyText(key) ==
    (IF key.form = "char" THEN <<"'", key.ch>> ELSE <<"0", "x", key.hh, key.hl>>)
    \o key.trail
SpecText(g) ==
    Str(InOrder(<<"c", "a", "s", "g">>, g.mods)
        \o (IF g.type = "k" THEN KeyText(g.key)
            ELSE IF g.type = "w" THEN AmountText(g.value)
            ELSE IF g.type = "c" THEN InOrder(<<"l", "m", "r">>, g.buttons)
            ELSE InOrder(<<"l", "m", "r">>, g.buttons)
                 \o AmountText(g.x) \o AmountText(g.y)))

\* The actions given: every set of modifiers; keys as characters and as
\* bytes in hexadecimal, with nothing or with more characters after them;
\* amounts up to three digits; every set of buttons.
Modifiers == SUBSET {"c", "a", "s", "g"}
ButtonSets == SUBSET {"l", "m", "r"}
KeyChars == {"a", "Z", "!", "~"}
HexDigits ==
    {"0", "1", "2", "3", "4", "5", "6", "7", "8", "9",
     "A", "B", "C", "D", "E", "F", "a", "b", "c", "d", "e", "f"}
HexDigitPairs == HexDigits \X HexDigits
Trails == {<<>>, <<"b">>, <<"'", "0">>}
Amounts == {0 - 999, 0 - 256, 0 - 255, 0 - 200, 0 - 128, 0 - 127, 0 - 1,
            0, 1, 127, 128, 200, 255, 256, 300, 999}
MoveAmounts == {0 - 128, 0 - 1, 5, 127, 200, 256}
Keys ==
    { [form |-> "char", ch |-> ch, trail |-> tr] : ch \in KeyChars, tr \in Trails }
    \cup { [form |-> "hex", hh |-> p[1], hl |-> p[2], trail |-> tr]
           : p \in HexDigitPairs, tr \in Trails }
Givens ==
    { [type |-> "k", mods |-> ms, key |-> key] : ms \in Modifiers, key \in Keys }
    \cup { [type |-> "w", mods |-> ms, value |-> n] : ms \in Modifiers, n \in Amounts }
    \cup { [type |-> "c", mods |-> ms, buttons |-> bs]
           : ms \in Modifiers, bs \in ButtonSets \ {{}} }
    \cup { [type |-> "m", mods |-> ms, buttons |-> bs, x |-> n[1], y |-> n[2]]
           : ms \in Modifiers, bs \in ButtonSets, n \in MoveAmounts \X MoveAmounts }

\* The value a parser returns, as its upper and its lower 16 bits.
Returned(g) ==
    IF g.type = "k" THEN <<0, parseK(SpecText(g))>>
    ELSE IF g.type = "w" THEN <<0, parseW(SpecText(g))>>
    ELSE IF g.type = "c" THEN <<0, parseC(SpecText(g))>>
    ELSE parseM(SpecText(g))

\* onNew() calls the parser of the type of the spec.
Parse(type) ==
    /\ given.type = type
    /\ code = NoCode
    /\ code' = Returned(given)
    /\ UNCHANGED given
    /\ UNCHANGED <<storeVars, consoleVars, decoderVars, buttonVars, hidVars>>

DoParseK == Parse("k")
DoParseM == Parse("m")
DoParseW == Parse("w")
DoParseC == Parse("c")

CodecStart ==
    /\ \E p \in {Populated(0)} :
          /\ header = p.header
          /\ eeprom = p.eeprom
    /\ ub = FALSE
    /\ nops = 0
    /\ last = Done("load", 0, 0, FALSE)
    /\ line = <<>>
    /\ cbRead = [nEntries |-> 0, entry |-> <<>>]
    /\ DecoderInit
    /\ ButtonInit
    /\ HidInit
    /\ given \in Givens
    /\ code = NoCode

CodecNext == DoParseK \/ DoParseM \/ DoParseW \/ DoParseC

CodecSpec == CodecStart /\ [][CodecNext]_vars

----------------------------------------------------------------------------
(* Commands remove <n> and use <combo> <n> as typed *)

\* The numerals typed for <n>: the slots, the values after the last slot,
\* the last value of 8 bits, and numerals of more than 8 bits.
TypedNumbers == {0, 1, 2, N_CONFIGS - 1, N_CONFIGS, 2^8 - 1, 2^8, 2^8 + 1, 2^8 + 2, 2 * 2^8 + 3}

\* The command remove <n>
OnRemove(n) ==
    /\ ~ub /\ nops < MaxOps
    /\ \E r \in {onRemove(header, eeprom, n)} :
          Result(r, "remove", n, 0)

DoOnRemove == \E n \in TypedNumbers : OnRemove(n)
DoUseTyped == \E n \in TypedNumbers : Use(3, n)

TypedNext == DoOnRemove \/ DoUseTyped

TypedSpec == Init /\ [][TypedNext]_vars

----------------------------------------------------------------------------
(* The store with a long config *)

\* The fewest pairs of specs whose config block is longer than the header.
LongEntries == (HeaderSize \div EntrySize) + 1

LongCounts == {1, LongEntries}

DoNewLong == \E n \in LongCounts : New(n)

LongNext == DoNewLong \/ DoRemove \/ DoUse \/ DoCommit

LongSpec == Init /\ [][LongNext]_vars

----------------------------------------------------------------------------
(* Properties of the store *)

Slots == 0..(N_CONFIGS - 1)
Combos == 0..(N_COMBOS - 1)

\* The entry count stored in EEPROM for the config of slot i.
StoredCount(h, e, i) == EepromRead(e, h.configPtr[i])

\* The step just taken was op and returned ok.
Did(op, ok) == last'.op = op /\ last'.ok = ok /\ ~ub'

\* C1: compaction correctness.  After removeConfig(k) returned true, every
\* config that was at slot i > k is at slot i - 1, at its old address less the
\* footprint of config k, and readConfig(i - 1) gives the count and the
\* entries readConfig(i) gave before the call.
C1_CompactionCorrect ==
    [][Did("remove", TRUE) =>
          \A i \in Slots :
             (i > last'.a /\ header.configPtr[i] # 0) =>
                /\ header'.configPtr[i - 1] =
                      header.configPtr[i] - Footprint(StoredCount(header, eeprom, last'.a))
                /\ readConfig(header', eeprom', i - 1).cb = readConfig(header, eeprom, i).cb]_vars

\* C2: header layout invariant.  configPtr[0] is the header size, a used slot
\* with a used successor is followed right after its footprint, and every slot
\* after an unused slot is unused.
C2_HeaderLayout ==
    ~ub =>
       /\ header.configPtr[0] = HeaderSize
       /\ \A i \in Slots \ {N_CONFIGS - 1} :
             /\ (header.configPtr[i] # 0 /\ header.configPtr[i + 1] # 0) =>
                   header.configPtr[i + 1] =
                      header.configPtr[i] + Footprint(StoredCount(header, eeprom, i))
             /\ header.configPtr[i] = 0 => header.configPtr[i + 1] = 0

\* The sum of the footprints of the used configs from slot i on.
RECURSIVE UsedFootprint(_, _, _)
UsedFootprint(h, e, i) ==
    IF i < N_CONFIGS /\ h.configPtr[i] # 0
    THEN Footprint(StoredCount(h, e, i)) + UsedFootprint(h, e, i + 1)
    ELSE 0

\* C3: storage conservation.  freeSpace() plus the footprints of the used
\* configs is 1024 less the header size.
C3_StorageConservation ==
    ~ub /\ ~freeSpace(header, eeprom).ub =>
       freeSpace(header, eeprom).fs + UsedFootprint(header, eeprom, 0) = EepromSize - HeaderSize

\* C4: a successful removeConfig(n) makes nConfigs() one less.
C4_RemoveDecrements ==
    [][Did("remove", TRUE) => nConfigs(header') = nConfigs(header) - 1]_vars

\* C5 as stated: after a successful removeConfig(n) no combo is mapped to n.
C5_NoMappingEqualsRemoved ==
    (last.op = "remove" /\ last.ok /\ ~ub) =>
       \A c \in Combos : header.curConfig[c] # last.a

\* C5 as the code has it: after a successful removeConfig(n) every combo that
\* was mapped to n is mapped to 0, and a combo is mapped to n only if it was
\* mapped to n + 1 (the config that moved into slot n).
C5_RemovedIsUnmapped ==
    [][Did("remove", TRUE) =>
          \A c \in Combos :
             /\ header.curConfig[c] = last'.a => header'.curConfig[c] = 0
             /\ header'.curConfig[c] = last'.a => header.curConfig[c] = last'.a + 1]_vars

\* A successful removeConfig(n) that left combo 3 mapped to n.
C5_Witness ==
    last.op = "remove" /\ last.ok /\ ~ub /\ header.curConfig[3] = last.a

\* C6: a successful removeConfig(n) maps every combo mapping m to 0 when
\* m = n, to m - 1 when m > n and to m when m < n, and the persisted header
\* holds that table.
C6_RemapRule ==
    [][Did("remove", TRUE) =>
          \A c \in Combos :
             LET m == header.curConfig[c]
                 n == last'.a
             IN  /\ header'.curConfig[c] = (IF m = n THEN 0 ELSE IF m > n THEN m - 1 ELSE m)
                 /\ HeaderFromEeprom(eeprom').curConfig[c] = header'.curConfig[c]]_vars

\* A successful removeConfig(n) with combo 3 mapped to a config below n.
C6_Witness ==
    /\ last.op = "remove" /\ last.ok /\ ~ub
    /\ header.curConfig[3] > 0 /\ header.curConfig[3] < last.a

C8_RemoveRejectsInvalid ==
    [][(last'.op = "remove" /\ ~ub /\
           (last'.a = 0 \/ last'.a >= N_CONFIGS \/ header.configPtr[last'.a] = 0)) =>
          /\ ~last'.ok /\ ~ub'
          /\ header' = header
          /\ eeprom' = eeprom]_vars

\* removeConfig(0) has returned false.
C8_Witness ==
    last.op = "remove" /\ ~last.ok /\ ~ub /\ last.a = 0

\* C9: addConfig(cb) returns false and leaves the header in memory and every
\* persisted byte as they were when all 8 slots are used or the footprint of
\* cb exceeds the free space.
C9_AddRejectsFull ==
    [][(last'.op = "add" /\ ~ub /\ ~ub' /\
           (\/ header.configPtr[N_CONFIGS - 1] # 0
            \/ Footprint(last'.a) > freeSpace(header, eeprom).fs)) =>
          /\ ~last'.ok
          /\ header' = header
          /\ eeprom' = eeprom]_vars

\* addConfig has returned false with all 8 slots used.
C9_Witness ==
    last.op = "add" /\ ~last.ok /\ ~ub /\ header.configPtr[N_CONFIGS - 1] # 0

\* C10: add/read round trip.  When addConfig(cb) returns true the new config
\* is in the slot after the last used one, at the address of the previous
\* config plus its footprint, every other slot and config is as before, and
\* readConfig of the new slot gives cb.
C10_AddReadRoundTrip ==
    [][Did("add", TRUE) =>
          LET k == nConfigs(header)
          IN  /\ k < N_CONFIGS
              /\ header.configPtr[k] = 0
              /\ header'.configPtr[k] =
                    header.configPtr[k - 1] + Footprint(StoredCount(header, eeprom, k - 1))
              /\ \A i \in Slots \ {k} : header'.configPtr[i] = header.configPtr[i]
              /\ header'.curConfig = header.curConfig
              /\ header'.selection = header.selection
              /\ \A i \in 0..(k - 1) :
                    readConfig(header', eeprom', i).cb = readConfig(header, eeprom, i).cb
              /\ readConfig(header', eeprom', k).cb = NewConfig(k, last'.a)]_vars

\* C11: a load that finds a foreign fingerprint leaves every combo mapped to
\* 0, slot 0 at the header size, slots 1..7 unused and config 0 with the one
\* pair 0xDA / 0xD9, all of it persisted, and a second load then returns true
\* with the same header and writes nothing.
C11_LoadSynthesizesDefaults ==
    [][(last'.op = "load" /\ HeaderFromEeprom(eeprom).fingerprint # FINGERPRINT) =>
          /\ \A c \in Combos : header'.curConfig[c] = 0
          /\ header'.configPtr[0] = HeaderSize
          /\ \A s \in Slots \ {0} : header'.configPtr[s] = 0
          /\ HeaderFromEeprom(eeprom') = header'
          /\ readConfig(header', eeprom', 0).cb =
                [nEntries |-> 1, entry |-> <<<<KEY_UP_ARROW, KEY_DOWN_ARROW>>>>]
          /\ readHeader(eeprom') = [ok |-> TRUE, header |-> header', eeprom |-> eeprom']]_vars

\* A load has synthesized the defaults.
C11_Witness ==
    last.op = "load" /\ ~last.ok /\ header.configPtr[0] = HeaderSize

\* C12 as stated: after a load that synthesized the defaults the selection in
\* memory and in EEPROM is 0.
C12_DefaultSelectionZero ==
    (last.op = "load" /\ ~last.ok) =>
       /\ header.selection = 0
       /\ HeaderFromEeprom(eeprom).selection = 0

\* C12 as the code has it: the synthesized selection is 1.
C12_DefaultSelectionOne ==
    (last.op = "load" /\ ~last.ok) =>
       /\ header.selection = 1
       /\ HeaderFromEeprom(eeprom).selection = 1

\* A load has synthesized the defaults over a device that held other data,
\* and the selection is persisted.
C12_Witness ==
    last.op = "load" /\ ~last.ok /\ HeaderFromEeprom(eeprom).selection = header.selection
    /\ Len(eeprom) > HeaderSize + Footprint(1)

\* C13: readHeader() returns true exactly when the persisted fingerprint is
\* ours; then it writes no byte and the header in memory is the persisted one.
\* It returns false exactly when it synthesized (and wrote) the defaults.
C13_LoadReportsPreexisting ==
    [][last'.op = "load" =>
          /\ last'.ok <=> (HeaderFromEeprom(eeprom).fingerprint = FINGERPRINT)
          /\ last'.ok => (eeprom' = eeprom /\ header' = HeaderFromEeprom(eeprom))
          /\ ~last'.ok => /\ header' = [DefaultHeader EXCEPT !.selection = header'.selection]
                          /\ HeaderFromEeprom(eeprom') = header'
                          /\ eeprom' # eeprom]_vars

\* A load has found a store with added configs and returned true.
C13_Witness ==
    last.op = "load" /\ last.ok /\ nConfigs(header) > 1

\* C14: readConfig(n, cb) returns false with cb.nEntries = 0 and reads no
\* entry when n is below 0, 8 or more, or an unused slot; for a used slot it
\* returns true with the stored count and that many pairs.
C14_ReadRejectsInvalid ==
    [][last'.op = "read" =>
          LET n == last'.a
              invalid == IF n < 0 \/ n >= N_CONFIGS THEN TRUE ELSE header.configPtr[n] = 0
          IN  IF invalid
              THEN ~last'.ok /\ ~ub' /\ cbRead'.nEntries = 0 /\ cbRead'.entry = <<>>
              ELSE /\ last'.ok /\ ~ub'
                   /\ cbRead'.nEntries = StoredCount(header, eeprom, n)
                   /\ Len(cbRead'.entry) = cbRead'.nEntries]_vars

\* C15: setConfig(combo, n), and the command use <combo> <n>, returns true,
\* maps combo to n and persists the header exactly when combo is in 0..7 and n
\* is a used slot; otherwise it fails and leaves the header in memory and the
\* persisted bytes as they were.
C15_SetSelectionMapping ==
    [][(last'.op \in {"set", "use"}) =>
          LET combo == last'.a
              n     == last'.b
              valid == /\ combo \in 0..7
                       /\ n \in Slots
                       /\ header.configPtr[n] # 0
          IN  IF valid
              THEN /\ last'.ok
                   /\ header'.curConfig[combo] = n
                   /\ \A c \in Combos \ {combo} : header'.curConfig[c] = header.curConfig[c]
                   /\ HeaderFromEeprom(eeprom') = header'
              ELSE /\ ~last'.ok
                   /\ header' = header
                   /\ eeprom' = eeprom]_vars

\* Whether the pair of specs spec0, spec1 of a command new is malformed: no
\* counterclockwise spec, a type letter other than k, m, w, c, a spec its
\* parser rejects, or a mouse move with fewer than two of the 32 entries left.
PairMalformed(spec0, spec1, entries) ==
    LET st == CharAt0(spec0)
        sp == Remove1(spec0)
    IN  \/ Len(spec1) = 0
        \/ ~(IsLetter(st, "K") \/ IsLetter(st, "M") \/ IsLetter(st, "W") \/ IsLetter(st, "C"))
        \/ IsLetter(st, "K") /\ (parseK(sp) = 0 \/ parseK(spec1) = 0)
        \/ IsLetter(st, "W") /\ (parseW(sp) = 0 \/ parseW(spec1) = 0)
        \/ IsLetter(st, "C") /\ (parseC(sp) = 0 \/ parseC(spec1) = 0)
        \/ IsLetter(st, "M") /\ (parseM(sp) = <<0, 0>> \/ parseM(spec1) = <<0, 0>>)
        \/ IsLetter(st, "M") /\ entries + 2 > MaxBlockEntries

\* Whether a pair of specs of the command line l is malformed, from pair eNum
\* on, the pairs before it making up that many entries.
RECURSIVE AnyMalformed(_, _, _)
AnyMalformed(l, eNum, entries) ==
    LET spec0 == GetWord(l, 1 + 2 * eNum)
        spec1 == GetWord(l, 2 + 2 * eNum)
    IN  IF Len(spec0) = 0
        THEN FALSE
        ELSE \/ PairMalformed(spec0, spec1, entries)
             \/ AnyMalformed(l, eNum + 1,
                             entries + (IF IsLetter(CharAt0(spec0), "M") THEN 2 ELSE 1))

\* C16: a command new with a malformed spec anywhere never calls addConfig
\* and leaves the header in memory and every persisted byte as they were.
C16_NewAllOrNothing ==
    [][(last'.op = "new" /\ AnyMalformed(line, 0, 0)) =>
          /\ ~last'.b
          /\ ~ub'
          /\ header' = header
          /\ eeprom' = eeprom]_vars

----------------------------------------------------------------------------
(* Properties of the decoder *)

\* The step is a timer interrupt (or a stretch of them).
Ticked == nticks' # nticks

\* Coil c is completing a rise (rising -> rose) alone with movement none.
Completes(c) ==
    /\ state[c] = "rising"
    /\ state[Other(c)] # "rising"
    /\ movement = "none"

Direction(c) == IF c = COIL_B THEN "cw" ELSE "cc"

\* C17: with movement none, a rise completed on one coil with no rise of the
\* other coil in the MAX_PULSE_SEP before it sets no movement, and the rise
\* completed on the other coil within MAX_PULSE_SEP of it sets movement to
\* cw when A rose first and to cc when B rose first.
C17_DecoderDirection ==
    [][Ticked =>
          \A c \in Coils :
             /\ (Completes(c) /\ age[Other(c)] > SepSteps) => movement' = "none"
             /\ (Completes(c) /\ age[Other(c)] <= SepSteps /\ ~paired[Other(c)])
                   => movement' = Direction(c)]_vars

\* C18: when a coil completes a rise more than MAX_PULSE_SEP after the rise
\* recorded last on the other coil, movement stays none.
C18_NoEventOutsideWindow ==
    [][Ticked =>
          \A c \in Coils :
             (Completes(c) /\ age[Other(c)] = AgeCap) => movement' = "none"]_vars

\* C19: while movement is cw or cc no timer interrupt changes it or records
\* a rise, and the machines of the coils go on: rising to rose, low to
\* rising or low, rose to low or rose.
C19_Backpressure ==
    [][(Ticked /\ movement # "none") =>
          /\ movement' = movement
          /\ risingTimestamp' = risingTimestamp
          /\ \A c \in Coils :
                /\ state[c] = "rising" => state'[c] = "rose"
                /\ state[c] = "low" => state'[c] \in {"low", "rising"}
                /\ state[c] = "rose" => state'[c] \in {"rose", "low"}]_vars

\* Coil B, whose rise set movement to cw, has gone low and risen again with
\* movement still cw.
C19_Witness ==
    movement = "cw" /\ state[COIL_B] = "rising"

\* C20: a rise that has been paired with one on the other coil to set
\* movement is not paired again to set it once more.
C20_OneEventPerWindow ==
    ~repaired


(* Properties of the handling of movement by the ISR and loop() *)

\* The events set by the ISR that loop() has not acted on yet.
Pending == IF movement # "none" /\ pc # "clear" THEN 1 ELSE 0

\* C21: only a timer interrupt sets movement to cw or cc, and only with
\* movement none; only loop() sets it to none; loop() acts once on every value
\* the ISR has set, in order; and with loop() running on, movement set to cw
\* or cc becomes none again.
C21_MailboxProtocol ==
    /\ [](/\ Len(latched) = Len(dispatched) + Pending
          /\ \A i \in 1..Len(dispatched) : dispatched[i] = DirOf(latched[i]))
    /\ [][movement' # movement =>
             IF movement' = "none"
             THEN ~Ticked /\ pc = "clear" /\ pc' = "test"
             ELSE Ticked /\ movement = "none"]_vars
    /\ ((movement # "none") ~> (movement = "none"))

\* loop() has acted on two events and movement is none again.
C21_Witness ==
    Len(dispatched) = 2 /\ movement = "none" /\ dispatched[1] # dispatched[2]

\* C22: from the test of movement in loop() to its reset no timer interrupt
\* changes movement, so the direction loop() acts on is the one set last by
\* the ISR, and the value loop() resets is the one it has acted on.
C22_AtomicReadAndClear ==
    [][/\ (Ticked /\ pc # "test") => movement' = movement
       /\ (pc = "dir" /\ pc' = "clear") =>
             (movement # "none" /\ dir' = DirOf(latched[Len(latched)]))
       /\ (pc = "clear" /\ pc' = "test") =>
             (/\ movement = latched[Len(latched)]
              /\ dir = DirOf(movement)
              /\ Len(dispatched) = Len(latched))]_vars

\* An interrupt has completed a rise between the test and the reset, and
\* loop() has then reset movement.
C22_Witness ==
    interleaved /\ pc = "test" /\ movement = "none" /\ Len(dispatched) > 0

(* Properties of the buttons *)

Passed == npasses' # npasses

\* For how long the debounced chord of the pass just made had been the same
\* at that pass.
HeldFor == IF CurCombo(button') = chordWas THEN chordFor ELSE 0

\* C23: a pass of loop() makes the debounced chord the pending one only when
\* the chord is not 0 and has been that same chord for FINGER_MILLIS.
C23_ChordFingerWindow ==
    [][(Passed /\ pendingCombo # 0 /\ pendingCombo' # pendingCombo) =>
          (/\ pendingCombo' = CurCombo(button')
           /\ pendingCombo' # 0
           /\ HeldFor >= FINGER_MILLIS)]_vars

\* C24: a pass changes button[i] only to the level read, and only when the
\* levels read have differed from button[i] at every pass for
\* DEBOUNCE_MILLIS; a level read equal to button[i] leaves it and clears
\* the timer.
C24_ButtonDebounce ==
    [][Passed =>
          \A i \in Buttons :
             /\ button'[i] # button[i] =>
                   (/\ button'[i] = Bit(curButton', i)
                    /\ diffSince[i] # NoRun
                    /\ diffSince[i] >= DEBOUNCE_MILLIS)
             /\ Bit(curButton', i) = button[i] =>
                   (button'[i] = button[i] /\ buttonMillis'[i] = Zero32)]_vars

\* Button A, read pressed through the window, has become pressed, and
\* button B, read pressed for 5 ms, has not.
C24_Witness ==
    button[0] = 1 /\ button[1] = 0 /\ diffSince[1] = 5

(* Properties of the actions made for a movement *)

\* The code stored in EEPROM for entry i (from 1), column d (1 clockwise,
\* 2 counterclockwise) of the config of slot cbn.
StoredCode(cbn, i, d) ==
    LET at == header.configPtr[cbn] + CountSize + EntrySize * (i - 1) + 2 * (d - 1)
    IN  Word(EepromRead(eeprom, at), EepromRead(eeprom, at + 1))

\* The codes the actions acts were made from, in order.
RECURSIVE Codes(_, _)
Codes(acts, i) == IF i > Len(acts) THEN <<>> ELSE acts[i].codes \o Codes(acts, i + 1)

\* C27: the actions loop() makes for a movement are made from the codes of
\* the config of the selection, all of them in the order stored, of the
\* clockwise column for cw and of the counterclockwise column for cc, and
\* after each action no key and no mouse button is left pressed.
C27_DispatchReleases ==
    (last.op = "move" /\ last.ok) =>
        LET cbn == header.curConfig[header.selection]
        IN  /\ last.a = cbn
            /\ Codes(sent, 1) = [i \in 1..StoredCount(header, eeprom, cbn) |->
                                    StoredCode(cbn, i, last.b + 1)]
            /\ \A i \in 1..Len(sent) :
                  /\ sent[i].eType = EType(sent[i].codes[1])
                  /\ sent[i].st = Released
            /\ hid = Released

\* A counterclockwise movement has been handled with a config of three
\* actions, one of them a mouse move with a button held.
C27_Witness ==
    /\ last.op = "move" /\ last.ok /\ last.b = 1
    /\ Len(sent) = 3
    /\ \E i \in 1..Len(sent) :
          /\ sent[i].eType = "m"
          /\ \E j \in 1..Len(sent[i].calls) :
                sent[i].calls[j].f = "Mouse.press" /\ sent[i].calls[j].b # {}

(* Properties of the selection *)

\* C25: header.selection changes only in a pass of loop() in which no
\* debounced button is pressed and the chord accepted last is not that of
\* the selection; it becomes the index of that chord, which is not chord 0,
\* and the header is written.
C25_SelectionCommit ==
    [][header'.selection # header.selection =>
          (/\ Passed
           /\ CurCombo(button') = 0
           /\ pendingCombo' # 0
           /\ pendingCombo' - 1 # header.selection
           /\ header'.selection = pendingCombo' - 1
           /\ HeaderFromEeprom(eeprom') = header')]_vars

\* Chord A and B has been accepted and made the selection after a command
\* use.
C25_Witness ==
    /\ last.op = "pass" /\ last.ok
    /\ header.selection = 2 /\ pendingCombo = 3
    /\ nops > 0

\* C26: with the chord of bitmask c accepted and made the selection, and
\* use c n done for it, a movement is handled with config n.
C26_ComboIsChord ==
    (/\ last.op = "move" /\ last.ok
     /\ pendingCombo \in 1..(N_COMBOS - 1)
     /\ pendingCombo # DefaultSelection + 1
     /\ CurCombo(button) = 0
     /\ header.selection = pendingCombo - 1
     /\ header.curConfig[pendingCombo] # 0)
    => last.a = header.curConfig[pendingCombo]

(* Properties of the codes of the actions *)

\* The value of a hexadecimal digit.
HexDigitValue(c) ==
    IF isdigit(Ascii[c]) THEN Ascii[c] - Ascii["0"]
    ELSE IF Ascii[c] <= Ascii["F"] THEN Ascii[c] - Ascii["A"] + 10
    ELSE Ascii[c] - Ascii["a"] + 10

\* The action a text stands for.
Meant(g) ==
    IF g.type = "k"
    THEN [type |-> "k", mods |-> g.mods,
          value |-> IF g.key.form = "char" THEN Ascii[g.key.ch]
                    ELSE 16 * HexDigitValue(g.key.hh) + HexDigitValue(g.key.hl)]
    ELSE g

\* The amounts of a wheel or mouse move action.
AmountsOf(g) ==
    IF g.type = "w" THEN {g.value} ELSE IF g.type = "m" THEN {g.x, g.y} ELSE {}
Magnitude(n) == IF n >= 0 THEN n ELSE 0 - n

\* C28: the code a parser returns for an action whose amounts are within
\* -255..+255, a key having nothing after it, is displayed as that action:
\* the same type, modifiers, and value or buttons.
C28_CodecRoundTrip ==
    (/\ code # NoCode
     /\ given.type = "k" => given.key.trail = <<>>
     /\ \A n \in AmountsOf(given) : Magnitude(n) <= 255)
    => /\ code # <<0, 0>>
       /\ DisplayEntry(IF given.type = "m" THEN code[1] ELSE code[2], code[2])
              = Meant(given)

\* C29: a wheel or mouse move text with an amount of 256..999 is rejected.
C29_OverflowRejected ==
    (/\ code # NoCode
     /\ \E n \in AmountsOf(given) : Magnitude(n) > 255)
    => code = <<0, 0>>

(* Properties of the entry counts *)

\* C30: every config stored has an entry count of 1..32, whatever the
\* commands received, the command new without specs among them.
C30_EntryCountInRange ==
    ~ub => \A i \in Slots :
              (i = 0 \/ header.configPtr[i] # 0) =>
                 StoredCount(header, eeprom, i) \in 1..MaxBlockEntries

(* Properties of the commands as typed *)

\* n is the number of a config in use, from slot first on.
UsedNumber(h, n, first) == n >= first /\ n < N_CONFIGS /\ h.configPtr[n] # 0

\* C31: remove <n> with n not a used config of 1..7, and use <combo> <n> with
\* n not a used config of 0..7, change neither the header nor the EEPROM,
\* whatever numeral is typed for n.
C31_TypedNumberNoOp ==
    [][/\ (last'.op = "remove" /\ ~UsedNumber(header, last'.a, 1))
            => (header' = header /\ eeprom' = eeprom)
       /\ (last'.op = "use" /\ ~UsedNumber(header, last'.b, 0))
            => (header' = header /\ eeprom' = eeprom)]_vars

(* Properties of the machines of the coils *)

\* The state the machine of coil c goes to from state s with the sample v.
CoilStep(c, s, v) ==
    IF s = "low" THEN (IF v > TRIGGER(c) THEN "rising" ELSE "low")
    ELSE IF s = "rising" THEN "rose"
    ELSE (IF v < RESET(c) THEN "low" ELSE "rose")

\* C32: at a timer interrupt the machine of each coil takes the one step its
\* state and its sample give: low to rising iff the sample is above the
\* trigger level, rising to rose always, rose to low iff the sample is below
\* the reset level; and the states change at timer interrupts only.
C32_CoilTransitions ==
    [][/\ Ticked => \A c \in Coils : state'[c] = CoilStep(c, state[c], sampled'[c])
       /\ ~Ticked => state' = state]_vars

\* Both machines have just gone from rising to rose, with samples below the
\* reset levels and movement set.
C32_Witness ==
    /\ \A c \in Coils : state[c] = "rose" /\ sampled[c] < RESET(c)
    /\ movement # "none"

\* C33: a key given as 0x and two hexadecimal digits h, l gets the code with
\* the value 16 * value(h) + value(l) in its low 8 bits and the modifier
\* bits of its modifier letters, and no other bit.
C33_KeyboardHexForm ==
    (/\ code # NoCode
     /\ given.type = "k" /\ given.key.form = "hex" /\ given.key.trail = <<>>)
    => /\ code[2] % (KB_VALUE_MASK + 1)
             = 16 * HexDigitValue(given.key.hh) + HexDigitValue(given.key.hl)
       /\ Printed(code[2], ModifierLetters) = given.mods
       /\ code[2] < 2^12

\* C34: a key with more characters after the quoted character or after the
\* two hexadecimal digits is rejected.
C34_TrailingRejected ==
    (/\ code # NoCode
     /\ given.type = "k" /\ given.key.trail # <<>>)
    => code = <<0, 0>>

(* Properties of the failure value of the parsers *)

\* C40: a command new whose specs are all well formed and which ends with
\* the key 0x00 without modifiers is accepted: onNew(), which takes the
\* command line, calls addConfig().
C40_ZeroKeyAccepted ==
    [][(/\ last'.op = "new"
        /\ Len(line) >= 3
        /\ SubSeq(line, Len(line) - 1, Len(line)) = ZeroKey)
       => last'.b]_line

\* C36: a rise completed on one coil alone, when no rise of the other coil has
\* been recorded since power-on or the rise recorded last on it is more than
\* MAX_PULSE_SEP old, leaves movement none.
C36_IsolatedRise ==
    [][Ticked =>
          \A c \in Coils :
             (Completes(c) /\ age[Other(c)] \in {Never, AgeCap}) => movement' = "none"]_vars

(* Properties of the mouse moves stored *)

\* The entry is the first (x) or the second (y) entry of a mouse move.
IsMove(entry, meType) == HasBit(entry, CE_TYPE_MASK) /\ ME_TYPE(entry) = meType

\* The type bits of an entry.
TypeBits(entry) == <<HasBit(entry, CE_TYPE_MASK), ME_TYPE(entry)>>

\* The config of slot i as readConfig() gives it.
StoredConfig(i) == readConfig(header, eeprom, i)

\* C35: in every config stored an x entry of a mouse move is followed, within
\* the config, by a y entry, in both columns, and the two columns of an entry
\* have the same type; so the for loop of loop() never takes an entry at or
\* past cb.nEntries.
C35_MouseMoveUnit ==
    \A i \in Slots :
       (i = 0 \/ header.configPtr[i] # 0) =>
          \E r \in {StoredConfig(i)} :
             /\ r.ok /\ ~r.ub
             /\ \A e \in 1..r.cb.nEntries :
                   /\ TypeBits(r.cb.entry[e][1]) = TypeBits(r.cb.entry[e][2])
                   /\ \A d \in 1..2 :
                         IsMove(r.cb.entry[e][d], ME_TYPE_X) =>
                            /\ e + 1 <= r.cb.nEntries
                            /\ IsMove(r.cb.entry[e + 1][d], ME_TYPE_Y)
             /\ \A d \in 1..2 : ~ForEntries(r.cb, d, 1, Released, <<>>).ub

\* A command new has stored a config of 32 entries that ends with a mouse
\* move.
C35_Witness ==
    /\ last.op = "new" /\ last.ok /\ last.a = MaxBlockEntries
    /\ \E i \in Slots :
          /\ header.configPtr[i] # 0
          /\ StoredCount(header, eeprom, i) = MaxBlockEntries
          /\ IsMove(StoredConfig(i).cb.entry[MaxBlockEntries - 1][1], ME_TYPE_X)

(* Properties of the addresses written *)

\* C37: whatever configs are added and removed, combos set and selections
\* made, config 0 stays at the address and with the count and the entries it
\* had after setup().
C37_BlockZeroImmutable ==
    ~ub => /\ header.configPtr[0] = HeaderSize
           /\ \E r \in {StoredConfig(0)} : r.ok /\ ~r.ub /\ r.cb = DefaultConfig

\* The EEPROM ranges <<address, length>> written by the writeConfig calls of
\* the compaction loop of removeConfig from config cbi on.
RECURSIVE RemoveWrites(_, _, _, _)
RemoveWrites(h, e, cbi, delta) ==
    IF cbi >= N_CONFIGS \/ h.configPtr[cbi] = 0
    THEN <<>>
    ELSE The({ LET newPtr == (h.configPtr[cbi] - delta) % SizeT
                   h1     == [h EXCEPT !.configPtr[cbi] = 0]
                   e1     == writeConfig(h1, e, cbi - 1, r.cb)
                   h2     == [h1 EXCEPT !.configPtr[cbi - 1] = newPtr]
               IN  IF r.ub
                   THEN <<>>
                   ELSE <<<<h1.configPtr[cbi - 1], Len(ConfigBytes(r.cb))>>>>
                        \o The({ RemoveWrites(hv, ev, cbi + 1, delta) :
                                 hv \in {h2}, ev \in {e1} })
               : r \in {readConfig(h, e, cbi)} })

\* The ranges written by the writeConfig calls of removeConfig(cbn).
RemoveWritesOf(h, e, cbn) ==
    RemoveWrites(h, e, cbn + 1,
                 (readConfig(h, e, cbn).cb.nEntries * EntrySize + CountSize) % SizeT)

\* The range written by the writeConfig call of addConfig(toAdd).
AddWrite(h, e, toAdd) ==
    The({ <<NextConfigPtr(h.configPtr[cbn - 1], readConfig(h, e, cbn - 1).cb.nEntries),
            Len(ConfigBytes(toAdd))>>
          : cbn \in {FirstUnused(h, 1)} })

\* A range of EEPROM that lies in the area of the config blocks.
InBlockArea(w) == w[1] >= HeaderSize /\ w[1] + w[2] <= EepromSize

\* C38: every writeConfig of addConfig and of removeConfig writes bytes
\* HeaderSize..1023 only, never address 0 and never the header, and no config
\* in use ends beyond byte 1024.
C38_BlockWritesInArea ==
    [][/\ Did("remove", TRUE) =>
            \E ws \in {RemoveWritesOf(header, eeprom, last'.a)} :
                \A i \in DOMAIN ws : InBlockArea(ws[i])
       /\ Did("add", TRUE) =>
            InBlockArea(AddWrite(header, eeprom,
                                 NewConfig(nConfigs(header) % N_CONFIGS, last'.a)))
       /\ ~ub' => \A s \in Slots :
            header'.configPtr[s] # 0 =>
                InBlockArea(<<header'.configPtr[s],
                              Footprint(StoredCount(header', eeprom', s))>>)]_vars

(* Properties of the selection *)

\* C39: from the synthesized store on, whatever buttons are pressed and
\* released and whatever console commands are given, pendingCombo is in 1..7
\* from the first pass of loop() on, and header.selection is in 0..6, an
\* index of header.curConfig.
C39_SelectionRange ==
    ~ub => /\ pendingCombo \in 0..N_COMBOS
           /\ npasses > 0 => pendingCombo \in 1..N_COMBOS
           /\ header.selection \in DOMAIN header.curConfig
           /\ DOMAIN header.curConfig = 0..(N_COMBOS - 1)

\* The chord of all three buttons was committed on a store the console
\* commands have changed.
C39_Witness ==
    /\ ~ub /\ nops > 0
    /\ pendingCombo = N_COMBOS
    /\ header.selection = N_COMBOS - 1
    /\ last.op = "pass" /\ last.ok
====
